---- MODULE Spec2Model ----
(***************************************************************************)
(* Pipeline lifecycle engine of the gpop daemon: the PipelineManager       *)
(* registry (daemon/src/gst/manager.rs), the Pipeline wrapper with its     *)
(* bus-watcher task and shutdown flag (daemon/src/gst/pipeline.rs) and the *)
(* event broadcast (daemon/src/gst/event.rs).                              *)
(*                                                                         *)
(* Every manager call is split at its await points and at its accesses to  *)
(* shared state (registry lock, pipeline mutex, next_id, event channel).   *)
(* GStreamer itself is the environment: a state change succeeds or fails,  *)
(* a playing graph may post end-of-stream or an error on its bus.          *)
(***************************************************************************)
EXTENDS Integers, Sequences, FiniteSets, TLC

\* ---------------------------------------------------------------- bounds
\* manager calls started in one behaviour, after the initial pipelines
MaxOps == 2
\* end-of-stream / error messages the framework posts in one behaviour
MaxMsgs == 1

\* gst/mod.rs:21 sets 100; the model runs the same comparison against a
\* limit small enough for the registry to reach it.
MAX_PIPELINES == 1
\* gst/pipeline.rs:20, 64 * 1024
MAX_PIPELINE_DESCRIPTION_LENGTH == 65536

\* gst/event.rs:104 sets 256; the model keeps the same retention rule with a
\* buffer small enough for a receiver to fall behind it.
EVENT_CHANNEL_CAPACITY == 1

\* client tasks calling into the manager concurrently
Procs == {"c1", "c2"}

\* the receivers main.rs takes from event_tx for the transports
Subs == {"ws", "dbus"}

\* ------------------------------------------------------- strings and ids
DigitChars == <<"0", "1", "2", "3", "4", "5", "6", "7", "8", "9">>

RECURSIVE to_string(_)
\* u64::to_string: decimal rendering, most significant digit first
to_string(n) ==
  IF n < 10 THEN <<DigitChars[n + 1]>>
  ELSE to_string(n \div 10) \o <<DigitChars[(n % 10) + 1]>>

\* descriptions: the text and its length in bytes
Desc(t, n) == [text |-> t, bytes |-> n]
DFake == Desc("fakesrc ! fakesink", 18)
Descriptions ==
  {DFake,
   Desc("videotestsrc ! fakesink", 23),
   Desc("invalid_element_xyz ! fakesink", 30),
   Desc("   ", 3),
   Desc("aaaa...", MAX_PIPELINE_DESCRIPTION_LENGTH + 1)}

\* ------------------------------------------------- unsupported-media test
\* a message is the sequence of its characters
UpperCase ==
  <<"A", "B", "C", "D", "E", "F", "G", "H", "I", "J", "K", "L", "M",
    "N", "O", "P", "Q", "R", "S", "T", "U", "V", "W", "X", "Y", "Z">>
LowerCase ==
  <<"a", "b", "c", "d", "e", "f", "g", "h", "i", "j", "k", "l", "m",
    "n", "o", "p", "q", "r", "s", "t", "u", "v", "w", "x", "y", "z">>

\* char::to_lowercase on the characters of a framework message
Lower(c) ==
  IF \E k \in 1..26 : UpperCase[k] = c
  THEN LowerCase[CHOOSE k \in 1..26 : UpperCase[k] = c] ELSE c

\* char::to_uppercase, for building inputs
Upper(c) ==
  IF \E k \in 1..26 : LowerCase[k] = c
  THEN UpperCase[CHOOSE k \in 1..26 : LowerCase[k] = c] ELSE c

\* a lowercasing that leaves the message as it is
to_lowercase_keeps(m) == m

\* str::to_lowercase
to_lowercase(m) == [k \in 1..Len(m) |-> Lower(m[k])]

\* str::contains
Contains(h, n) ==
  \E k \in 0..(Len(h) - Len(n)) : SubSeq(h, k + 1, k + Len(n)) = n

\* pipeline.rs:30-47  media_patterns
media_patterns ==
  <<
    <<"n", "o", " ", "s", "u", "i", "t", "a", "b", "l", "e">>,
    <<"m", "i", "s", "s", "i", "n", "g", " ", "p", "l", "u", "g", "i", "n">>,
    <<"m", "i", "s", "s", "i", "n", "g", " ", "e", "l", "e", "m", "e", "n",
      "t">>,
    <<"c", "o", "d", "e", "c", " ", "n", "o", "t", " ", "f", "o", "u", "n",
      "d">>,
    <<"c", "o", "u", "l", "d", " ", "n", "o", "t", " ", "d", "e", "t", "e",
      "r", "m", "i", "n", "e", " ", "t", "y", "p", "e">>,
    <<"u", "n", "h", "a", "n", "d", "l", "e", "d">>,
    <<"n", "o", "t", " ", "s", "u", "p", "p", "o", "r", "t", "e", "d">>,
    <<"u", "n", "s", "u", "p", "p", "o", "r", "t", "e", "d">>,
    <<"n", "o", " ", "d", "e", "c", "o", "d", "e", "r">>,
    <<"n", "o", " ", "e", "n", "c", "o", "d", "e", "r">>,
    <<"n", "o", " ", "d", "e", "m", "u", "x", "e", "r">>,
    <<"n", "o", " ", "m", "u", "x", "e", "r">>,
    <<"f", "o", "r", "m", "a", "t", " ", "n", "o", "t", " ", "s", "u", "p",
      "p", "o", "r", "t", "e", "d">>,
    <<"c", "a", "p", "s", " ", "n", "o", "t", " ", "s", "u", "p", "p", "o",
      "r", "t", "e", "d">>,
    <<"n", "o", "t", " ", "n", "e", "g", "o", "t", "i", "a", "t", "e", "d">>,
    <<"s", "t", "r", "e", "a", "m", " ", "t", "y", "p", "e", " ", "n", "o",
      "t", " ", "s", "u", "p", "p", "o", "r", "t", "e", "d">>
  >>

\* Option<String>
None == [some |-> FALSE, value |-> <<>>]
Some(v) == [some |-> TRUE, value |-> v]

\* pipeline.rs:24-56  is_media_not_supported_error on the error's message
is_media_not_supported_error(message) ==
  LET msg_lower == to_lowercase(message)
  IN  IF \E k \in 1..Len(media_patterns) :
           Contains(msg_lower, media_patterns[k])
      THEN Some(message) ELSE None

\* messages of framework errors
InternalDataStreamError ==
  <<"I", "n", "t", "e", "r", "n", "a", "l", " ", "d", "a", "t", "a", " ",
    "s", "t", "r", "e", "a", "m", " ", "e", "r", "r", "o", "r", ".">>
NoSuitableDecoder ==
  <<"N", "o", " ", "s", "u", "i", "t", "a", "b", "l", "e", " ", "d", "e",
    "c", "o", "d", "e", "r", " ", "f", "o", "u", "n", "d">>
GenericFailure ==
  <<"g", "e", "n", "e", "r", "i", "c", " ", "f", "a", "i", "l", "u", "r",
    "e", " ", "o", "c", "c", "u", "r", "r", "e", "d">>

\* pipeline.rs:165-166  format!("{}: {}", gst_error, err.debug()) for an
\* error that carries no debug string
ErrorMsg(text) == text \o <<":", " ">>

\* ------------------------------------------------------------ Pipeline::new

\* str::trim on the description texts
Trim(t) ==
  IF t \in {"", "   "} THEN ""
  ELSE IF t = " fakesrc ! fakesink " THEN "fakesrc ! fakesink"
  ELSE t

\* gst::parse::launch: the framework accepts the well-formed texts
ParseLaunch(d) ==
  IF Trim(d.text) \in {"fakesrc ! fakesink", "videotestsrc ! fakesink",
                       "fakesrc ! fakesink   ..."}
  THEN "ok" ELSE "no element"

\* the message of the framework's parse error, which names the element
ParseErrorMessage(d) ==
  IF d.text = "fakesrc ! unsupported_xyz"
  THEN <<"n", "o", " ", "e", "l", "e", "m", "e", "n", "t", " ", "\"",
         "u", "n", "s", "u", "p", "p", "o", "r", "t", "e", "d", "_",
         "x", "y", "z", "\"">>
  ELSE IF d.text = "aaaa..."
  THEN <<"n", "o", " ", "e", "l", "e", "m", "e", "n", "t", " ", "\"",
         "a", "a", "a", "a", ".", ".", ".", "\"">>
  ELSE <<"n", "o", " ", "e", "l", "e", "m", "e", "n", "t", " ", "\"",
         "i", "n", "v", "a", "l", "i", "d", "_", "e", "l", "e", "m", "e",
         "n", "t", "_", "x", "y", "z", "\"">>

\* ---------------------------------------------------------------- results
Ok(v) == [ok |-> TRUE, err |-> "", msg |-> "", val |-> v]
Err(kind, m) == [ok |-> FALSE, err |-> kind, msg |-> m, val |-> <<>>]
NoRes == [ok |-> FALSE, err |-> "", msg |-> "", val |-> <<>>]

\* a length check that rejects the longest length too
ValidateOffByOne(d) ==
  IF Trim(d.text) = "" THEN Err("InvalidPipeline", "empty")
  ELSE IF d.bytes >= MAX_PIPELINE_DESCRIPTION_LENGTH
       THEN Err("InvalidPipeline", "too long")
  ELSE NoRes

\* pipeline.rs:72-88  the checks of Pipeline::new that come before the
\* parse: the error returned, or NoRes to go on
Validate(d) ==
  IF Trim(d.text) = "" THEN Err("InvalidPipeline", "empty")
  ELSE IF d.bytes > MAX_PIPELINE_DESCRIPTION_LENGTH
       THEN Err("InvalidPipeline", "too long")
  ELSE NoRes

\* pipeline.rs:93-101  the error kind for a parse failure
ParseError(d) ==
  IF is_media_not_supported_error(ParseErrorMessage(d)).some
  THEN Err("MediaNotSupported", ParseLaunch(d))
  ELSE Err("InvalidPipeline", ParseLaunch(d))

\* Pipeline::new up to the parse: the error it returns, or NoRes to go on
PipelineNewError(d) ==
  IF Validate(d) # NoRes THEN Validate(d)
  ELSE IF ParseLaunch(d) # "ok" THEN ParseError(d)
  ELSE NoRes

\* --------------------------------------------------- messages and events
Msg(k, o, n, t) ==
  [kind |-> k, old |-> o, new |-> n, text |-> t, src |-> "pipeline"]
NoMsg == Msg("", "", "", <<>>)

Ev(e, id, d, o, n, m) ==
  [event |-> e, pipeline_id |-> id, description |-> d,
   old_state |-> o, new_state |-> n, message |-> m]
PipelineAdded(id, d) == Ev("pipeline_added", id, d.text, "", "", <<>>)
PipelineUpdated(id, d) ==
  Ev("pipeline_updated", id, d.text, "", "", <<>>)
PipelineRemoved(id) == Ev("pipeline_removed", id, "", "", "", <<>>)
StateChanged(id, o, n) == Ev("state_changed", id, "", o, n, <<>>)
Eos(id) == Ev("eos", id, "", "", "", <<>>)
Error(id, m) == Ev("error", id, "", "", "", m)
Unsupported(id, m) == Ev("unsupported", id, "", "", "", m)

\* ------------------------------------------------------ Pipeline instance
\* Pipeline::new on success: graph in null, no watcher, flag cleared
\* (starts counts the start_bus_watch calls made for the instance, nsent the
\* events its watcher has sent)
NewPipeline(id, d) ==
  [id |-> id, description |-> d, state |-> "null", flag |-> FALSE,
   bus_task |-> FALSE, watcher |-> "none", wmsg |-> NoMsg, bus |-> <<>>,
   lock |-> "", dropped |-> FALSE, left |-> "", starts |-> 0, nsent |-> 0]

\* Pipeline::set_state on the graph.  A successful change posts the
\* pipeline's state-changed message; going to null flushes the bus.
GraphSetState(rec, target, outcome) ==
  IF outcome = "fail" THEN rec
  ELSE [rec EXCEPT
          !.state = target,
          !.bus = IF target = "null" THEN <<>>
                  ELSE IF rec.state # target
                       THEN Append(@, Msg("state_changed", rec.state, target, <<>>))
                  ELSE @]

SetStateResult(outcome) ==
  IF outcome = "fail" THEN Err("StateChangeFailed", "") ELSE Ok(<<>>)

Outcomes == {"ok", "fail"}
Targets == {"playing", "paused", "null"}

WatcherAlive(rec) == rec.watcher \in {"running", "dispatch", "locked"}

\* a Drop that stores false into the shutdown flag
DropPipelineClearsFlag(rec) ==
  [rec EXCEPT !.flag = FALSE, !.state = "null", !.bus = <<>>,
              !.dropped = TRUE,
              !.watcher = IF rec.bus_task /\ WatcherAlive(rec)
                          THEN "aborted" ELSE @]

\* impl Drop for Pipeline
DropPipeline(rec) ==
  [rec EXCEPT !.flag = TRUE, !.state = "null", !.bus = <<>>,
              !.dropped = TRUE,
              !.watcher = IF rec.bus_task /\ WatcherAlive(rec)
                          THEN "aborted" ELSE @]

\* ------------------------------------------------------------------ state
VARIABLES
  registry,   \* PipelineManager.pipelines: id -> instance
  next_id,    \* PipelineManager.next_id
  rw,         \* the registry RwLock: its writer and its readers
  inst,       \* every Pipeline constructed so far, by instance number
  events,     \* everything sent on event_tx, in send order
  pc,         \* where each client task is in its manager call
  frame,      \* the locals of each client task's call
  opsLeft,    \* calls that may still be started
  msgsLeft,   \* framework messages that may still be posted
  hist,       \* history: ids returned by add_pipeline calls that have
              \* returned, ids for which remove_pipeline has returned
              \* success, ids whose entry remove_pipeline has taken out
  subs,       \* the receivers of the event channel: whether each exists,
              \* the position in the send order it reads next, the position
              \* of the event it received last, the count its last recv
              \* reported as missed, the number of events it received,
              \* the position it subscribed at, the total reported missed
  trk,        \* main.rs playback mode: the tracker's receiver, the ids
              \* given to play_all and those that failed, the tracker task's
              \* pending set and flags, the codes sent on done_tx
  calc,       \* a free function under evaluation: its name, its arguments
              \* and its result
  ws,         \* the WebSocket server: its configuration, the registered
              \* clients and their outbound channels, each connection's
              \* position in handle_connection
  dbus        \* the DbusServer: pipeline_indices, next_index and the
              \* indices that have an object on the object server

vars == <<registry, next_id, rw, inst, events, pc, frame, opsLeft, msgsLeft,
          hist, subs, trk, calc, ws, dbus>>

IdleFrame ==
  [op |-> "", id |-> <<>>, desc |-> Desc("", 0), target |-> "",
   new |-> 0, old |-> 0, h |-> 0, list |-> {}, acc |-> <<>>, res |-> NoRes,
   wlock |-> FALSE, mutated |-> FALSE, spawned |-> FALSE, sent |-> <<>>,
   after |-> FALSE, reg0 |-> [x \in {} |-> 0], made |-> 0, clean |-> TRUE]

\* ---------------------------------------------------------------- helpers
Count(reg) == Cardinality(DOMAIN reg)

\* HashMap::insert
Insert(reg, id, i) ==
  [x \in DOMAIN reg \cup {id} |-> IF x = id THEN i ELSE reg[x]]

\* a removal that looks the entry up and leaves it in the map
RemoveKeeps(reg, id) == reg

\* HashMap::remove
Remove(reg, id) == [x \in DOMAIN reg \ {id} |-> reg[x]]

\* a read lock that is granted while a writer holds the lock
CanReadAlways == TRUE

\* RwLock::read().await can complete
CanRead == rw.writer = ""

\* RwLock::write().await can complete
CanWrite == rw.writer = "" /\ rw.readers = {}

\* no receiver of the channel
NoSub ==
  [on |-> FALSE, pos |-> 0, last |-> 0, lag |-> 0, n |-> 0, start |-> 0,
   missed |-> 0]

\* event_tx.subscribe() when the next send will be number k: the receiver
\* sees what is sent from then on
NewSub(k) ==
  [on |-> TRUE, pos |-> k, last |-> 0, lag |-> 0, n |-> 0, start |-> k,
   missed |-> 0]

\* playback mode off: no tracker task and no receiver of its own
NoTracker ==
  [phase |-> "off", rx |-> NoSub, ids |-> <<>>, k |-> 0, failed |-> {},
   pending |-> {}, had_error |-> FALSE, had_unsupported |-> FALSE,
   todo |-> {}, gone |-> {}, codes |-> <<>>]

\* no function under evaluation
NoCalc == [fn |-> "", arg |-> <<>>, out |-> <<>>, done |-> FALSE]

\* no WebSocket server
NoWs == [on |-> FALSE]

\* dbus/mod.rs:51-56  DbusServer::new: an empty id-to-index map and
\* next_index 0; before it is called there is no server
DbusServerNew(on) ==
  [on |-> on, pipeline_indices |-> [x \in {} |-> 0], next_index |-> 0,
   objects |-> {}]

NoDbus == DbusServerNew(FALSE)

\* Sender::receiver_count
ReceiverCount ==
  Cardinality({s \in Subs : subs[s].on}) + (IF trk.rx.on THEN 1 ELSE 0)

\* event_tx.send(..).is_err(): send fails exactly when there is no receiver
SendFails == ReceiverCount = 0

\* a caller that returns the send error instead of logging it
AfterSendPropagates(failed, r) ==
  IF failed THEN Err("GStreamer", "no receivers") ELSE r

\* manager.rs:95-106  a failed send is logged with warn! and the call goes
\* on to return r
AfterSend(failed, r) == r

\* an Arc<Mutex<Pipeline>> to instance i is held by the registry, by a
\* local of a call in progress, or by the instance's live watcher task
Referenced(reg, fr, ins, i) ==
  \/ \E x \in DOMAIN reg : reg[x] = i
  \/ \E p \in Procs : \/ fr[p].new = i
                      \/ fr[p].old = i
                      \/ fr[p].h = i
                      \/ i \in fr[p].list
  \/ WatcherAlive(ins[i])

\* dropping the last Arc runs Pipeline's Drop
Collect(reg, fr, ins) ==
  [i \in DOMAIN ins |->
     IF ~ins[i].dropped /\ ~Referenced(reg, fr, ins, i)
     THEN DropPipeline(ins[i]) ELSE ins[i]]

\* the call returns: its locals go out of scope
Finish(f, r) ==
  [f EXCEPT !.res = r, !.new = 0, !.old = 0, !.h = 0, !.list = {}]

\* a registry change by p, as seen by the calls of the other tasks
Disturb(fr, p) ==
  [q \in Procs |->
     IF q # p /\ pc[q] # "idle" THEN [fr[q] EXCEPT !.clean = FALSE]
     ELSE fr[q]]

\* a counter that is read and written back without the increment
FetchAddStale(n) == n

\* manager.rs:57  next_id.fetch_add(1, Relaxed): the counter afterwards (the
\* value handed out is the one before); 2^64 values are out of reach here
FetchAdd(n) == n + 1

\* Pipeline::start_bus_watch: the watcher task is spawned
StartBusWatch(rec) ==
  [rec EXCEPT !.watcher = "running", !.starts = @ + 1]

\* a set_bus_task that does not keep the handle
SetBusTaskForgets(rec) == rec

\* Pipeline::set_bus_task: the task handle is stored on the pipeline
SetBusTask(rec) == [rec EXCEPT !.bus_task = TRUE]

\* the pipeline that add_pipeline("fakesrc ! fakesink") has registered as
\* number k (counting from 1) when no call has touched it since
InitialPipeline(k) ==
  SetBusTask(StartBusWatch(NewPipeline(to_string(k - 1), DFake)))

\* PipelineManager::new, then n add_pipeline("fakesrc ! fakesink") calls that
\* have returned, as main.rs makes one for each --pipeline argument; ops
\* calls may follow and the receivers in on exist
ManagerState(n, ops, on) ==
  /\ registry = [x \in {to_string(k - 1) : k \in 1..n} |->
                   CHOOSE k \in 1..n : to_string(k - 1) = x]
  /\ next_id = n
  /\ rw = [writer |-> "", readers |-> {}]
  /\ inst = [k \in 1..n |-> InitialPipeline(k)]
  /\ events = [k \in 1..n |-> PipelineAdded(to_string(k - 1), DFake)]
  /\ pc = [p \in Procs |-> "idle"]
  /\ frame = [p \in Procs |-> IdleFrame]
  /\ opsLeft = ops
  /\ msgsLeft = MaxMsgs
  /\ hist = [returned |-> {to_string(k - 1) : k \in 1..n},
             removedOk |-> {}, takenOut |-> {}]
  /\ subs = [s \in Subs |-> IF s \in on THEN NewSub(n + 1) ELSE NoSub]

\* the daemon outside playback mode, with no WebSocket connection yet
InitState(n, ops, on) ==
  /\ ManagerState(n, ops, on)
  /\ trk = NoTracker
  /\ calc = NoCalc
  /\ ws = NoWs
  /\ dbus = NoDbus

\* main.rs:96-179  the channel is created and its first receiver dropped,
\* the initial pipelines are added, then the transports subscribe: client
\* calls find either no receiver yet or the transports' receivers
InitAfter(n) == \E on \in {{}, Subs} : InitState(n, MaxOps, on)

Init == \E n \in 0..MAX_PIPELINES : InitAfter(n)

\* a call starts: opsLeft is spent and the locals are fresh
Begin(op, id, d, t) ==
  [IdleFrame EXCEPT !.op = op, !.id = id, !.desc = d, !.target = t,
                    !.reg0 = registry, !.after = id \in hist.removedOk]

\* ------------------------------------------------------------ add_pipeline
\* manager.rs:45  let pipelines = self.pipelines.read().await
AddStart(p) ==
  /\ pc[p] = "idle" /\ opsLeft > 0
  /\ CanRead
  /\ rw' = [rw EXCEPT !.readers = @ \cup {p}]
  /\ pc' = [pc EXCEPT ![p] = "add_limit"]
  /\ frame' = [frame EXCEPT ![p] = Begin("add_pipeline", <<>>, Desc("", 0), "")]
  /\ opsLeft' = opsLeft - 1
  /\ UNCHANGED <<subs, trk, calc, ws, dbus>>
  /\ UNCHANGED <<registry, next_id, inst, events, msgsLeft, hist>>

\* manager.rs:46-52  the limit check, then the read guard is dropped
AddLimit(p) ==
  /\ pc[p] = "add_limit"
  /\ rw' = [rw EXCEPT !.readers = @ \ {p}]
  /\ IF Count(registry) >= MAX_PIPELINES
     THEN /\ pc' = [pc EXCEPT ![p] = "done"]
          /\ frame' = [frame EXCEPT ![p] =
                         Finish(@, Err("InvalidPipeline", "limit"))]
     ELSE /\ pc' = [pc EXCEPT ![p] = "add_alloc"]
          /\ frame' = frame
  /\ UNCHANGED <<subs, trk, calc, ws, dbus>>
  /\ UNCHANGED <<registry, next_id, inst, events, opsLeft, msgsLeft,
                 hist>>

\* manager.rs:57-86  fetch_add, Pipeline::new, bus and flag extracted, the
\* watcher spawned and its handle stored.  Both locks of the new pipeline's
\* mutex are here: only this call and the new watcher can reach the
\* pipeline, and the watcher locks it only for a state-changed message,
\* which a graph that was never started has not posted.
\* d is the call's description argument, first used here.
AddAlloc(p, d) ==
  /\ pc[p] = "add_alloc"
  /\ next_id' = FetchAdd(next_id)
  /\ LET id == to_string(next_id)
         e == PipelineNewError(d)
     IN IF e # NoRes
        THEN /\ pc' = [pc EXCEPT ![p] = "done"]
             /\ frame' = [frame EXCEPT ![p] = Finish([@ EXCEPT !.desc = d], e)]
             /\ inst' = inst
        ELSE /\ pc' = [pc EXCEPT ![p] = "add_insert"]
             /\ frame' = [frame EXCEPT ![p].id = id,
                                       ![p].desc = d,
                                       ![p].new = Len(inst) + 1,
                                       ![p].made = Len(inst) + 1,
                                       ![p].spawned = TRUE]
             /\ inst' = Append(inst,
                               SetBusTask(StartBusWatch(NewPipeline(id, d))))
  /\ UNCHANGED <<subs, trk, calc, ws, dbus>>
  /\ UNCHANGED <<registry, rw, events, opsLeft, msgsLeft, hist>>

\* an insert that checks the limit only once the entry is in the map
AddInsertThenLimit(p) ==
  /\ pc[p] = "add_insert"
  /\ CanWrite
  /\ registry' = Insert(registry, frame[p].id, frame[p].new)
  /\ IF Count(registry') > MAX_PIPELINES
     THEN /\ frame' = [Disturb(frame, p) EXCEPT ![p] =
                         Finish([@ EXCEPT !.wlock = TRUE, !.mutated = TRUE],
                                Err("InvalidPipeline", "limit"))]
          /\ pc' = [pc EXCEPT ![p] = "done"]
     ELSE /\ frame' = [Disturb(frame, p) EXCEPT ![p].new = 0,
                                                ![p].wlock = TRUE,
                                                ![p].mutated = TRUE]
          /\ pc' = [pc EXCEPT ![p] = "add_publish"]
  /\ UNCHANGED <<subs, trk, calc, ws, dbus>>
  /\ UNCHANGED <<next_id, rw, inst, events, opsLeft, msgsLeft, hist>>

\* manager.rs:88-91  write lock, insert, write lock released
AddInsert(p) ==
  /\ pc[p] = "add_insert"
  /\ CanWrite
  /\ registry' = Insert(registry, frame[p].id, frame[p].new)
  /\ frame' = [Disturb(frame, p) EXCEPT ![p].new = 0, ![p].wlock = TRUE,
                                        ![p].mutated = TRUE]
  /\ pc' = [pc EXCEPT ![p] = "add_publish"]
  /\ UNCHANGED <<subs, trk, calc, ws, dbus>>
  /\ UNCHANGED <<next_id, rw, inst, events, opsLeft, msgsLeft, hist>>

\* an add_pipeline that sends its event twice
AddPublishTwice(p) ==
  /\ pc[p] = "add_publish"
  /\ LET e == PipelineAdded(frame[p].id, frame[p].desc)
     IN /\ events' = Append(Append(events, e), e)
        /\ frame' = [frame EXCEPT ![p] =
                       Finish([@ EXCEPT !.sent = Append(Append(@, e), e)],
                              Ok(frame[p].id))]
  /\ pc' = [pc EXCEPT ![p] = "done"]
  /\ UNCHANGED <<subs, trk, calc, ws, dbus>>
  /\ UNCHANGED <<registry, next_id, rw, inst, opsLeft, msgsLeft, hist>>

\* manager.rs:95-106  send PipelineAdded, return Ok(id)
AddPublish(p) ==
  /\ pc[p] = "add_publish"
  /\ LET e == PipelineAdded(frame[p].id, frame[p].desc)
     IN /\ events' = Append(events, e)
        /\ frame' = [frame EXCEPT ![p] =
                       Finish([@ EXCEPT !.sent = Append(@, e)],
                              AfterSend(SendFails, Ok(frame[p].id)))]
  /\ pc' = [pc EXCEPT ![p] = "done"]
  /\ UNCHANGED <<subs, trk, calc, ws, dbus>>
  /\ UNCHANGED <<registry, next_id, rw, inst, opsLeft, msgsLeft, hist>>

\* the caller has the result; the task is free for its next call
Return(p) ==
  /\ pc[p] = "done"
  /\ hist' = IF frame[p].op = "add_pipeline" /\ frame[p].res.ok
             THEN [hist EXCEPT !.returned = @ \cup {frame[p].res.val}]
             ELSE IF frame[p].op = "remove_pipeline" /\ frame[p].res.ok
             THEN [hist EXCEPT !.removedOk = @ \cup {frame[p].id}]
             ELSE hist
  /\ pc' = [pc EXCEPT ![p] = "idle"]
  /\ frame' = [frame EXCEPT ![p] = IdleFrame]
  /\ UNCHANGED <<subs, trk, calc, ws, dbus>>
  /\ UNCHANGED <<registry, next_id, rw, inst, events, opsLeft, msgsLeft>>

\* ------------------------------------------------ lookups and state changes
ReadOps == {"get_pipeline_info", "get_pipeline_description", "get_position",
            "get_dot"}

\* manager.rs:137  get_pipeline: self.pipelines.read().await.  Every lookup
\* and set_state start with it; which of them the call is shows only in what
\* it does under the pipeline mutex, or in nothing when the id is absent.
GetStart(p, id) ==
  /\ pc[p] = "idle" /\ opsLeft > 0
  /\ CanRead
  /\ rw' = [rw EXCEPT !.readers = @ \cup {p}]
  /\ pc' = [pc EXCEPT ![p] = "get_resolve"]
  /\ frame' = [frame EXCEPT ![p] = Begin("get_pipeline", id, Desc("", 0), "")]
  /\ opsLeft' = opsLeft - 1
  /\ UNCHANGED <<subs, trk, calc, ws, dbus>>
  /\ UNCHANGED <<registry, next_id, inst, events, msgsLeft, hist>>

\* manager.rs:138-142  get(id).cloned() or PipelineNotFound, guard dropped
GetResolve(p) ==
  /\ pc[p] = "get_resolve"
  /\ rw' = [rw EXCEPT !.readers = @ \ {p}]
  /\ IF frame[p].id \in DOMAIN registry
     THEN /\ pc' = [pc EXCEPT ![p] = "get_lock"]
          /\ frame' = [frame EXCEPT ![p].h = registry[frame[p].id]]
     ELSE /\ pc' = [pc EXCEPT ![p] = "done"]
          /\ frame' = [frame EXCEPT ![p] =
                         Finish(@, Err("PipelineNotFound", ""))]
  /\ UNCHANGED <<subs, trk, calc, ws, dbus>>
  /\ UNCHANGED <<registry, next_id, inst, events, opsLeft, msgsLeft,
                 hist>>

\* manager.rs:146,158,192,210,217  let p = pipeline.lock().await
GetLock(p) ==
  /\ pc[p] = "get_lock"
  /\ inst[frame[p].h].lock = ""
  /\ inst' = [inst EXCEPT ![frame[p].h].lock = p]
  /\ pc' = [pc EXCEPT ![p] = "get_op"]
  /\ UNCHANGED <<subs, trk, calc, ws, dbus>>
  /\ UNCHANGED <<registry, next_id, rw, events, frame, opsLeft, msgsLeft,
                 hist>>

\* PipelineInfo as get_pipeline_info and list_pipelines build it
Info(rec) ==
  [id |-> rec.id, description |-> rec.description.text, state |-> rec.state,
   streaming |-> rec.state = "playing"]

\* what the read-only calls return for a locked pipeline
ReadValue(op, rec) ==
  IF op = "get_pipeline_info" THEN Info(rec)
  ELSE IF op = "get_pipeline_description" THEN rec.description.text
  ELSE IF op = "get_position" THEN <<"position", rec.state>>
  ELSE <<"digraph", rec.id>>

\* manager.rs:148-153,159,211,218  the read under the mutex, handle dropped
GetRead(p, op) ==
  /\ pc[p] = "get_op"
  /\ frame' = [frame EXCEPT ![p] =
                 Finish([@ EXCEPT !.op = op],
                        Ok(ReadValue(op, inst[frame[p].h])))]
  /\ inst' = Collect(registry, frame',
                     [inst EXCEPT ![frame[p].h].lock = ""])
  /\ pc' = [pc EXCEPT ![p] = "done"]
  /\ UNCHANGED <<subs, trk, calc, ws, dbus>>
  /\ UNCHANGED <<registry, next_id, rw, events, opsLeft, msgsLeft, hist>>

\* manager.rs:193  p.set_state(state) under the mutex (play, pause and stop
\* are this call with playing, paused and null), handle dropped
SetState(p, target, outcome) ==
  /\ pc[p] = "get_op"
  /\ frame' = [frame EXCEPT ![p] =
                 Finish([@ EXCEPT !.op = "set_state", !.target = target],
                        SetStateResult(outcome))]
  /\ inst' = Collect(registry, frame',
                     [inst EXCEPT ![frame[p].h] =
                        [GraphSetState(@, target, outcome) EXCEPT !.lock = ""]])
  /\ pc' = [pc EXCEPT ![p] = "done"]
  /\ UNCHANGED <<subs, trk, calc, ws, dbus>>
  /\ UNCHANGED <<registry, next_id, rw, events, opsLeft, msgsLeft, hist>>

\* manager.rs:186-187  pipeline_count
CountStart(p) ==
  /\ pc[p] = "idle" /\ opsLeft > 0
  /\ CanRead
  /\ rw' = [rw EXCEPT !.readers = @ \cup {p}]
  /\ pc' = [pc EXCEPT ![p] = "count_read"]
  /\ frame' = [frame EXCEPT ![p] = Begin("pipeline_count", <<>>, Desc("", 0), "")]
  /\ opsLeft' = opsLeft - 1
  /\ UNCHANGED <<subs, trk, calc, ws, dbus>>
  /\ UNCHANGED <<registry, next_id, inst, events, msgsLeft, hist>>

CountRead(p) ==
  /\ pc[p] = "count_read"
  /\ rw' = [rw EXCEPT !.readers = @ \ {p}]
  /\ frame' = [frame EXCEPT ![p] = Finish(@, Ok(Count(registry)))]
  /\ pc' = [pc EXCEPT ![p] = "done"]
  /\ UNCHANGED <<subs, trk, calc, ws, dbus>>
  /\ UNCHANGED <<registry, next_id, inst, events, opsLeft, msgsLeft,
                 hist>>

\* --------------------------------------------------------- remove_pipeline
\* manager.rs:110-112,131-133  write lock, pipelines.remove(id)
RemStart(p, id) ==
  /\ pc[p] = "idle" /\ opsLeft > 0
  /\ CanWrite
  /\ opsLeft' = opsLeft - 1
  /\ LET f == [Begin("remove_pipeline", id, Desc("", 0), "")
                 EXCEPT !.wlock = TRUE]
     IN IF id \in DOMAIN registry
        THEN /\ registry' = Remove(registry, id)
             /\ rw' = [rw EXCEPT !.writer = p]
             /\ pc' = [pc EXCEPT ![p] = "rem_lock"]
             /\ frame' = [Disturb(frame, p) EXCEPT ![p] =
                            [f EXCEPT !.old = registry[id], !.mutated = TRUE]]
             /\ inst' = [inst EXCEPT ![registry[id]].left = "removed"]
             /\ hist' = [hist EXCEPT !.takenOut = @ \cup {id}]
        ELSE /\ registry' = registry
             /\ rw' = rw
             /\ pc' = [pc EXCEPT ![p] = "done"]
             /\ frame' = [frame EXCEPT ![p] =
                            Finish(f, Err("PipelineNotFound", ""))]
             /\ inst' = inst
             /\ hist' = hist
  /\ UNCHANGED <<subs, trk, calc, ws, dbus>>
  /\ UNCHANGED <<next_id, events, msgsLeft>>

\* manager.rs:114  let p = pipeline.lock().await
RemLock(p) ==
  /\ pc[p] = "rem_lock"
  /\ inst[frame[p].old].lock = ""
  /\ inst' = [inst EXCEPT ![frame[p].old].lock = p]
  /\ pc' = [pc EXCEPT ![p] = "rem_stop"]
  /\ UNCHANGED <<subs, trk, calc, ws, dbus>>
  /\ UNCHANGED <<registry, next_id, rw, events, frame, opsLeft, msgsLeft,
                 hist>>

\* manager.rs:115-116  p.stop()?  On Err the call returns here: the mutex
\* guard, the removed handle and the write guard are dropped on the way out
RemStop(p, outcome) ==
  /\ pc[p] = "rem_stop"
  /\ LET stopped == [GraphSetState(inst[frame[p].old], "null", outcome)
                       EXCEPT !.lock = ""]
         tmp == [inst EXCEPT ![frame[p].old] = stopped]
     IN IF outcome = "fail"
        THEN /\ frame' = [frame EXCEPT ![p] =
                            Finish(@, SetStateResult(outcome))]
             /\ rw' = [rw EXCEPT !.writer = ""]
             /\ pc' = [pc EXCEPT ![p] = "done"]
             /\ inst' = Collect(registry, frame', tmp)
        ELSE /\ frame' = frame
             /\ rw' = rw
             /\ pc' = [pc EXCEPT ![p] = "rem_publish"]
             /\ inst' = tmp
  /\ UNCHANGED <<subs, trk, calc, ws, dbus>>
  /\ UNCHANGED <<registry, next_id, events, opsLeft, msgsLeft, hist>>

\* manager.rs:120-130  send PipelineRemoved, Ok(()), guards dropped
RemPublish(p) ==
  /\ pc[p] = "rem_publish"
  /\ LET e == PipelineRemoved(frame[p].id)
     IN /\ events' = Append(events, e)
        /\ frame' = [frame EXCEPT ![p] =
                       Finish([@ EXCEPT !.sent = Append(@, e)],
                              AfterSend(SendFails, Ok(<<>>)))]
  /\ rw' = [rw EXCEPT !.writer = ""]
  /\ pc' = [pc EXCEPT ![p] = "done"]
  /\ inst' = Collect(registry, frame', inst)
  /\ UNCHANGED <<subs, trk, calc, ws, dbus>>
  /\ UNCHANGED <<registry, next_id, opsLeft, msgsLeft, hist>>

\* --------------------------------------------------------- update_pipeline
\* an update that takes the old pipeline out before it validates the new
\* description
UpdStartRemovesFirst(p, id, d) ==
  /\ pc[p] = "idle" /\ opsLeft > 0
  /\ opsLeft' = opsLeft - 1
  /\ LET e == PipelineNewError(d)
         f == Begin("update_pipeline", id, d, "")
     IN IF e # NoRes
        THEN /\ pc' = [pc EXCEPT ![p] = "done"]
             /\ frame' = [frame EXCEPT ![p] = Finish(f, e)]
             /\ inst' = inst
             /\ registry' = Remove(registry, id)
        ELSE /\ pc' = [pc EXCEPT ![p] = "upd_wlock"]
             /\ frame' = [frame EXCEPT ![p] =
                            [f EXCEPT !.new = Len(inst) + 1,
                                      !.made = Len(inst) + 1]]
             /\ inst' = Append(inst, NewPipeline(id, d))
             /\ registry' = registry
  /\ UNCHANGED <<subs, trk, calc, ws, dbus>>
  /\ UNCHANGED <<next_id, rw, events, msgsLeft, hist>>

\* manager.rs:226-236  Pipeline::new(id, description)?, bus and flag taken
\* from the replacement under its own mutex
UpdStart(p, id, d) ==
  /\ pc[p] = "idle" /\ opsLeft > 0
  /\ opsLeft' = opsLeft - 1
  /\ LET e == PipelineNewError(d)
         f == Begin("update_pipeline", id, d, "")
     IN IF e # NoRes
        THEN /\ pc' = [pc EXCEPT ![p] = "done"]
             /\ frame' = [frame EXCEPT ![p] = Finish(f, e)]
             /\ inst' = inst
        ELSE /\ pc' = [pc EXCEPT ![p] = "upd_wlock"]
             /\ frame' = [frame EXCEPT ![p] =
                            [f EXCEPT !.new = Len(inst) + 1,
                                      !.made = Len(inst) + 1]]
             /\ inst' = Append(inst, NewPipeline(id, d))
  /\ UNCHANGED <<subs, trk, calc, ws, dbus>>
  /\ UNCHANGED <<registry, next_id, rw, events, msgsLeft, hist>>

\* an update that does not look for the id under the write lock and inserts
\* the replacement whether or not an entry is there
UpdCheckBlind(p) ==
  /\ pc[p] = "upd_wlock"
  /\ CanWrite
  /\ IF frame[p].id \in DOMAIN registry
     THEN /\ rw' = [rw EXCEPT !.writer = p]
          /\ pc' = [pc EXCEPT ![p] = "upd_lock_old"]
          /\ registry' = Remove(registry, frame[p].id)
          /\ frame' = [Disturb(frame, p) EXCEPT
                         ![p].wlock = TRUE, ![p].spawned = TRUE,
                         ![p].old = registry[frame[p].id],
                         ![p].mutated = TRUE]
          /\ inst' = [inst EXCEPT ![frame[p].new] =
                        SetBusTask(StartBusWatch(@)),
                                  ![registry[frame[p].id]].left = "replaced"]
     ELSE /\ rw' = rw
          /\ pc' = [pc EXCEPT ![p] = "upd_publish"]
          /\ registry' = Insert(registry, frame[p].id, frame[p].new)
          /\ frame' = [Disturb(frame, p) EXCEPT
                         ![p].wlock = TRUE, ![p].spawned = TRUE,
                         ![p].new = 0, ![p].mutated = TRUE]
          /\ inst' = [inst EXCEPT ![frame[p].new] =
                        SetBusTask(StartBusWatch(@))]
  /\ UNCHANGED <<subs, trk, calc, ws, dbus>>
  /\ UNCHANGED <<next_id, events, opsLeft, msgsLeft, hist>>

\* manager.rs:240-265  write lock; contains_key(id), else the replacement is
\* dropped and the call fails; the replacement's watcher is spawned and its
\* handle stored (the replacement's mutex is free, as in add_pipeline);
\* pipelines.remove(id) takes the old pipeline out
UpdCheck(p) ==
  /\ pc[p] = "upd_wlock"
  /\ CanWrite
  /\ IF frame[p].id \in DOMAIN registry
     THEN /\ rw' = [rw EXCEPT !.writer = p]
          /\ pc' = [pc EXCEPT ![p] = "upd_lock_old"]
          /\ registry' = Remove(registry, frame[p].id)
          /\ frame' = [Disturb(frame, p) EXCEPT
                         ![p].wlock = TRUE, ![p].spawned = TRUE,
                         ![p].old = registry[frame[p].id],
                         ![p].mutated = TRUE]
          /\ inst' = [inst EXCEPT ![frame[p].new] =
                        SetBusTask(StartBusWatch(@)),
                                  ![registry[frame[p].id]].left = "replaced"]
     ELSE /\ rw' = rw
          /\ pc' = [pc EXCEPT ![p] = "done"]
          /\ registry' = registry
          /\ frame' = [frame EXCEPT ![p] =
                         Finish([@ EXCEPT !.wlock = TRUE],
                                Err("PipelineNotFound", ""))]
          /\ inst' = Collect(registry, frame', inst)
  /\ UNCHANGED <<subs, trk, calc, ws, dbus>>
  /\ UNCHANGED <<next_id, events, opsLeft, msgsLeft, hist>>

\* manager.rs:266  let p = old_pipeline.lock().await
UpdLockOld(p) ==
  /\ pc[p] = "upd_lock_old"
  /\ inst[frame[p].old].lock = ""
  /\ inst' = [inst EXCEPT ![frame[p].old].lock = p]
  /\ pc' = [pc EXCEPT ![p] = "upd_swap"]
  /\ UNCHANGED <<subs, trk, calc, ws, dbus>>
  /\ UNCHANGED <<registry, next_id, rw, events, frame, opsLeft, msgsLeft,
                 hist>>

\* a swap that puts the old pipeline back under the id
UpdSwapKeepsOld(p, outcome) ==
  /\ pc[p] = "upd_swap"
  /\ registry' = Insert(registry, frame[p].id, frame[p].old)
  /\ frame' = [Disturb(frame, p) EXCEPT ![p].old = 0, ![p].new = 0]
  /\ inst' = Collect(registry', frame',
                     [inst EXCEPT ![frame[p].old] =
                        [GraphSetState(@, "null", outcome) EXCEPT !.lock = ""]])
  /\ rw' = [rw EXCEPT !.writer = ""]
  /\ pc' = [pc EXCEPT ![p] = "upd_publish"]
  /\ UNCHANGED <<subs, trk, calc, ws, dbus>>
  /\ UNCHANGED <<next_id, events, opsLeft, msgsLeft, hist>>

\* manager.rs:267-275  let _ = p.stop(), old handle dropped, replacement
\* inserted under the same id, write guard dropped
UpdSwap(p, outcome) ==
  /\ pc[p] = "upd_swap"
  /\ registry' = Insert(registry, frame[p].id, frame[p].new)
  /\ frame' = [Disturb(frame, p) EXCEPT ![p].old = 0, ![p].new = 0]
  /\ inst' = Collect(registry', frame',
                     [inst EXCEPT ![frame[p].old] =
                        [GraphSetState(@, "null", outcome) EXCEPT !.lock = ""]])
  /\ rw' = [rw EXCEPT !.writer = ""]
  /\ pc' = [pc EXCEPT ![p] = "upd_publish"]
  /\ UNCHANGED <<subs, trk, calc, ws, dbus>>
  /\ UNCHANGED <<next_id, events, opsLeft, msgsLeft, hist>>

\* manager.rs:280-291  send PipelineUpdated, Ok(())
UpdPublish(p) ==
  /\ pc[p] = "upd_publish"
  /\ LET e == PipelineUpdated(frame[p].id, frame[p].desc)
     IN /\ events' = Append(events, e)
        /\ frame' = [frame EXCEPT ![p] =
                       Finish([@ EXCEPT !.sent = Append(@, e)],
                              AfterSend(SendFails, Ok(<<>>)))]
  /\ pc' = [pc EXCEPT ![p] = "done"]
  /\ UNCHANGED <<subs, trk, calc, ws, dbus>>
  /\ UNCHANGED <<registry, next_id, rw, inst, opsLeft, msgsLeft, hist>>

\* ---------------------------------------------------------------- shutdown
\* the pipelines a call still has to visit; the map's order is arbitrary
Values(reg) == {reg[x] : x \in DOMAIN reg}

\* manager.rs:295-300  write lock, drain into a local list, guard dropped
ShutStart(p) ==
  /\ pc[p] = "idle" /\ opsLeft > 0
  /\ CanWrite
  /\ opsLeft' = opsLeft - 1
  /\ registry' = [x \in {} |-> 0]
  /\ LET f == [Begin("shutdown", <<>>, Desc("", 0), "")
                 EXCEPT !.wlock = TRUE, !.mutated = registry # registry']
     IN IF Values(registry) = {}
        THEN /\ pc' = [pc EXCEPT ![p] = "done"]
             /\ frame' = [frame EXCEPT ![p] = Finish(f, Ok(<<>>))]
        ELSE /\ pc' = [pc EXCEPT ![p] = "shut_lock1"]
             /\ \E i \in Values(registry) :
                  frame' = [Disturb(frame, p) EXCEPT ![p] =
                              [f EXCEPT !.h = i,
                                        !.list = Values(registry) \ {i}]]
  /\ inst' = [i \in DOMAIN inst |->
                IF i \in Values(registry)
                THEN [inst[i] EXCEPT !.left = "drained"] ELSE inst[i]]
  /\ UNCHANGED <<subs, trk, calc, ws, dbus>>
  /\ UNCHANGED <<next_id, rw, events, msgsLeft, hist>>

\* manager.rs:303  let p = pipeline.lock().await
ShutLock1(p) ==
  /\ pc[p] = "shut_lock1"
  /\ inst[frame[p].h].lock = ""
  /\ inst' = [inst EXCEPT ![frame[p].h].lock = p]
  /\ pc' = [pc EXCEPT ![p] = "shut_signal"]
  /\ UNCHANGED <<subs, trk, calc, ws, dbus>>
  /\ UNCHANGED <<registry, next_id, rw, events, frame, opsLeft, msgsLeft,
                 hist>>

\* a shutdown that takes and releases the mutex without signalling
ShutSignalForgets(p) ==
  /\ pc[p] = "shut_signal"
  /\ inst' = [inst EXCEPT ![frame[p].h].lock = ""]
  /\ pc' = [pc EXCEPT ![p] = "shut_lock2"]
  /\ UNCHANGED <<subs, trk, calc, ws, dbus>>
  /\ UNCHANGED <<registry, next_id, rw, events, frame, opsLeft, msgsLeft,
                 hist>>

\* manager.rs:304-307  p.signal_shutdown(), mutex released, grace period
ShutSignal(p) ==
  /\ pc[p] = "shut_signal"
  /\ inst' = [inst EXCEPT ![frame[p].h].flag = TRUE, ![frame[p].h].lock = ""]
  /\ pc' = [pc EXCEPT ![p] = "shut_lock2"]
  /\ UNCHANGED <<subs, trk, calc, ws, dbus>>
  /\ UNCHANGED <<registry, next_id, rw, events, frame, opsLeft, msgsLeft,
                 hist>>

\* manager.rs:310  let p = pipeline.lock().await
ShutLock2(p) ==
  /\ pc[p] = "shut_lock2"
  /\ inst[frame[p].h].lock = ""
  /\ inst' = [inst EXCEPT ![frame[p].h].lock = p]
  /\ pc' = [pc EXCEPT ![p] = "shut_stop"]
  /\ UNCHANGED <<subs, trk, calc, ws, dbus>>
  /\ UNCHANGED <<registry, next_id, rw, events, frame, opsLeft, msgsLeft,
                 hist>>

\* manager.rs:311-314  let _ = p.stop(), handle dropped, next pipeline
ShutStop(p, outcome) ==
  /\ pc[p] = "shut_stop"
  /\ LET tmp == [inst EXCEPT ![frame[p].h] =
                   [GraphSetState(@, "null", outcome) EXCEPT !.lock = ""]]
     IN IF frame[p].list = {}
        THEN /\ pc' = [pc EXCEPT ![p] = "done"]
             /\ frame' = [frame EXCEPT ![p] = Finish(@, Ok(<<>>))]
             /\ inst' = Collect(registry, frame', tmp)
        ELSE /\ pc' = [pc EXCEPT ![p] = "shut_lock1"]
             /\ \E i \in frame[p].list :
                  frame' = [frame EXCEPT ![p].h = i, ![p].list = @ \ {i}]
             /\ inst' = Collect(registry, frame', tmp)
  /\ UNCHANGED <<subs, trk, calc, ws, dbus>>
  /\ UNCHANGED <<registry, next_id, rw, events, opsLeft, msgsLeft, hist>>

\* ---------------------------------------------------------- list_pipelines
\* manager.rs:165  let pipelines = self.pipelines.read().await
ListStart(p) ==
  /\ pc[p] = "idle" /\ opsLeft > 0
  /\ CanRead
  /\ rw' = [rw EXCEPT !.readers = @ \cup {p}]
  /\ pc' = [pc EXCEPT ![p] = "list_snap"]
  /\ frame' = [frame EXCEPT ![p] = Begin("list_pipelines", <<>>, Desc("", 0), "")]
  /\ opsLeft' = opsLeft - 1
  /\ UNCHANGED <<subs, trk, calc, ws, dbus>>
  /\ UNCHANGED <<registry, next_id, inst, events, msgsLeft, hist>>

\* a listing that keeps the read guard while it visits the pipelines
ListSnapKeepsGuard(p) ==
  /\ pc[p] = "list_snap"
  /\ IF Values(registry) = {}
     THEN /\ pc' = [pc EXCEPT ![p] = "done"]
          /\ frame' = [frame EXCEPT ![p] = Finish(@, Ok(<<>>))]
          /\ rw' = [rw EXCEPT !.readers = @ \ {p}]
     ELSE /\ pc' = [pc EXCEPT ![p] = "list_lock"]
          /\ rw' = rw
          /\ \E i \in Values(registry) :
               frame' = [frame EXCEPT ![p].h = i,
                                      ![p].list = Values(registry) \ {i}]
  /\ UNCHANGED <<subs, trk, calc, ws, dbus>>
  /\ UNCHANGED <<registry, next_id, inst, events, opsLeft, msgsLeft,
                 hist>>

\* manager.rs:166-171  values().cloned().collect(), read guard dropped
ListSnap(p) ==
  /\ pc[p] = "list_snap"
  /\ rw' = [rw EXCEPT !.readers = @ \ {p}]
  /\ IF Values(registry) = {}
     THEN /\ pc' = [pc EXCEPT ![p] = "done"]
          /\ frame' = [frame EXCEPT ![p] = Finish(@, Ok(<<>>))]
     ELSE /\ pc' = [pc EXCEPT ![p] = "list_lock"]
          /\ \E i \in Values(registry) :
               frame' = [frame EXCEPT ![p].h = i,
                                      ![p].list = Values(registry) \ {i}]
  /\ UNCHANGED <<subs, trk, calc, ws, dbus>>
  /\ UNCHANGED <<registry, next_id, inst, events, opsLeft, msgsLeft,
                 hist>>

\* manager.rs:173  let p = pipeline.lock().await
ListLock(p) ==
  /\ pc[p] = "list_lock"
  /\ inst[frame[p].h].lock = ""
  /\ inst' = [inst EXCEPT ![frame[p].h].lock = p]
  /\ pc' = [pc EXCEPT ![p] = "list_read"]
  /\ UNCHANGED <<subs, trk, calc, ws, dbus>>
  /\ UNCHANGED <<registry, next_id, rw, events, frame, opsLeft, msgsLeft,
                 hist>>

\* manager.rs:174-182  infos.push(..), handle dropped, next pipeline
ListRead(p) ==
  /\ pc[p] = "list_read"
  /\ LET acc == Append(frame[p].acc, Info(inst[frame[p].h]))
         tmp == [inst EXCEPT ![frame[p].h].lock = ""]
     IN IF frame[p].list = {}
        THEN /\ pc' = [pc EXCEPT ![p] = "done"]
             /\ frame' = [frame EXCEPT ![p] =
                            Finish([@ EXCEPT !.acc = <<>>], Ok(acc))]
             /\ inst' = Collect(registry, frame', tmp)
        ELSE /\ pc' = [pc EXCEPT ![p] = "list_lock"]
             /\ \E i \in frame[p].list :
                  frame' = [frame EXCEPT ![p].h = i, ![p].list = @ \ {i},
                                         ![p].acc = acc]
             /\ inst' = Collect(registry, frame', tmp)
  /\ UNCHANGED <<subs, trk, calc, ws, dbus>>
  /\ UNCHANGED <<registry, next_id, rw, events, opsLeft, msgsLeft, hist>>

\* ------------------------------------------------------------- bus watcher
\* pipeline.rs:130-147  flag clear at both loads, timed_pop returns a message
\* (a timed_pop that times out changes nothing and is not a step)
WatchPop(i) ==
  /\ inst[i].watcher = "running"
  /\ ~inst[i].flag
  /\ inst[i].bus # <<>>
  /\ inst' = [inst EXCEPT ![i].wmsg = Head(inst[i].bus),
                          ![i].bus = Tail(inst[i].bus),
                          ![i].watcher = "dispatch"]
  /\ UNCHANGED <<subs, trk, calc, ws, dbus>>
  /\ UNCHANGED <<registry, next_id, rw, events, pc, frame, opsLeft, msgsLeft,
                 hist>>

\* pipeline.rs:130-133,239  flag set: the loop breaks, the task ends and
\* its Arc to the pipeline goes with it
WatchExit(i) ==
  /\ inst[i].watcher = "running"
  /\ inst[i].flag
  /\ inst' = Collect(registry, frame, [inst EXCEPT ![i].watcher = "exited"])
  /\ UNCHANGED <<subs, trk, calc, ws, dbus>>
  /\ UNCHANGED <<registry, next_id, rw, events, pc, frame, opsLeft, msgsLeft,
                 hist>>

\* an error arm that never classifies
ErrorEventPlain(id, text) == Error(id, ErrorMsg(text))

\* pipeline.rs:163-182  the event for an error message: Unsupported when
\* the error's own message classifies, Error otherwise
ErrorEvent(id, text) ==
  IF is_media_not_supported_error(text).some
  THEN Unsupported(id, ErrorMsg(text)) ELSE Error(id, ErrorMsg(text))

\* pipeline.rs:161-210, 234  the arms that take no lock: an error or
\* end-of-stream message becomes an event, a warning is logged and any
\* other kind is ignored
WatchSend(i) ==
  /\ inst[i].watcher = "dispatch"
  /\ inst[i].wmsg.kind # "state_changed"
  /\ events' = IF inst[i].wmsg.kind = "eos"
               THEN Append(events, Eos(inst[i].id))
               ELSE IF inst[i].wmsg.kind = "error"
               THEN Append(events,
                           ErrorEvent(inst[i].id, inst[i].wmsg.text))
               ELSE events
  /\ inst' = [inst EXCEPT ![i].wmsg = NoMsg, ![i].watcher = "running",
                          ![i].nsent = IF inst[i].wmsg.kind \in {"eos", "error"}
                                       THEN @ + 1 ELSE @]
  /\ UNCHANGED <<subs, trk, calc, ws, dbus>>
  /\ UNCHANGED <<registry, next_id, rw, pc, frame, opsLeft, msgsLeft,
                 hist>>

\* pipeline.rs:211-213  state-changed: let p = pipeline_clone.lock().await
WatchLock(i) ==
  /\ inst[i].watcher = "dispatch"
  /\ inst[i].wmsg.kind = "state_changed"
  /\ inst[i].lock = ""
  /\ inst' = [inst EXCEPT ![i].lock = "watcher", ![i].watcher = "locked"]
  /\ UNCHANGED <<subs, trk, calc, ws, dbus>>
  /\ UNCHANGED <<registry, next_id, rw, events, pc, frame, opsLeft, msgsLeft,
                 hist>>

\* a watcher that keeps the pipeline mutex after the state-changed arm
WatchStateChangedKeepsMutex(i) ==
  /\ inst[i].watcher = "locked"
  /\ events' = IF inst[i].wmsg.src = "pipeline"
               THEN Append(events,
                           StateChanged(inst[i].id, inst[i].wmsg.old,
                                        inst[i].wmsg.new))
               ELSE events
  /\ inst' = [inst EXCEPT ![i].wmsg = NoMsg, ![i].watcher = "running"]
  /\ UNCHANGED <<subs, trk, calc, ws, dbus>>
  /\ UNCHANGED <<registry, next_id, rw, pc, frame, opsLeft, msgsLeft,
                 hist>>

\* pipeline.rs:214-232  when the source is the pipeline: send StateChanged;
\* then the mutex guard is dropped
WatchStateChanged(i) ==
  /\ inst[i].watcher = "locked"
  /\ events' = IF inst[i].wmsg.src = "pipeline"
               THEN Append(events,
                           StateChanged(inst[i].id, inst[i].wmsg.old,
                                        inst[i].wmsg.new))
               ELSE events
  /\ inst' = [inst EXCEPT ![i].wmsg = NoMsg, ![i].watcher = "running",
                          ![i].lock = "",
                          ![i].nsent = IF inst[i].wmsg.src = "pipeline"
                                       THEN @ + 1 ELSE @]
  /\ UNCHANGED <<subs, trk, calc, ws, dbus>>
  /\ UNCHANGED <<registry, next_id, rw, pc, frame, opsLeft, msgsLeft,
                 hist>>

\* --------------------------------------------------------------- framework
\* what a playing graph posts: end-of-stream, a data-flow error, an error
\* for media it cannot handle, a warning, a message of another kind, the
\* state change of one of its elements
BusMessages ==
  {Msg("eos", "", "", <<>>),
   Msg("error", "", "", InternalDataStreamError),
   Msg("error", "", "", NoSuitableDecoder),
   Msg("warning", "", "", <<>>),
   Msg("other", "", "", <<>>),
   [Msg("state_changed", "paused", "playing", <<>>)
      EXCEPT !.src = "element"]}

\* a playing graph reaches end-of-stream or fails: the message is on its bus
BusPost(i, m) ==
  /\ msgsLeft > 0
  /\ ~inst[i].dropped
  /\ inst[i].state = "playing"
  /\ inst' = [inst EXCEPT ![i].bus = Append(@, m)]
  /\ msgsLeft' = msgsLeft - 1
  /\ UNCHANGED <<subs, trk, calc, ws, dbus>>
  /\ UNCHANGED <<registry, next_id, rw, events, pc, frame, opsLeft, hist>>

\* ------------------------------------------------------------ specification
\* ids a client may name: those of the pipelines constructed so far, and one
\* that was never handed out
KnownIds == {inst[i].id : i \in DOMAIN inst} \cup {<<"n", "o", "n", "e">>}

Next ==
  \/ \E p \in Procs : AddStart(p)
  \/ \E p \in Procs : AddLimit(p)
  \/ \E p \in Procs, d \in Descriptions : AddAlloc(p, d)
  \/ \E p \in Procs : AddInsert(p)
  \/ \E p \in Procs : AddPublish(p)
  \/ \E p \in Procs, id \in KnownIds : GetStart(p, id)
  \/ \E p \in Procs : GetResolve(p)
  \/ \E p \in Procs : GetLock(p)
  \/ \E p \in Procs, op \in ReadOps : GetRead(p, op)
  \/ \E p \in Procs, t \in Targets, o \in Outcomes : SetState(p, t, o)
  \/ \E p \in Procs : CountStart(p)
  \/ \E p \in Procs : CountRead(p)
  \/ \E p \in Procs, id \in KnownIds : RemStart(p, id)
  \/ \E p \in Procs : RemLock(p)
  \/ \E p \in Procs, o \in Outcomes : RemStop(p, o)
  \/ \E p \in Procs : RemPublish(p)
  \/ \E p \in Procs, id \in KnownIds, d \in Descriptions : UpdStart(p, id, d)
  \/ \E p \in Procs : UpdCheck(p)
  \/ \E p \in Procs : UpdLockOld(p)
  \/ \E p \in Procs, o \in Outcomes : UpdSwap(p, o)
  \/ \E p \in Procs : UpdPublish(p)
  \/ \E p \in Procs : ShutStart(p)
  \/ \E p \in Procs : ShutLock1(p)
  \/ \E p \in Procs : ShutSignal(p)
  \/ \E p \in Procs : ShutLock2(p)
  \/ \E p \in Procs, o \in Outcomes : ShutStop(p, o)
  \/ \E p \in Procs : ListStart(p)
  \/ \E p \in Procs : ListSnap(p)
  \/ \E p \in Procs : ListLock(p)
  \/ \E p \in Procs : ListRead(p)
  \/ \E i \in DOMAIN inst : WatchPop(i)
  \/ \E i \in DOMAIN inst : WatchExit(i)
  \/ \E i \in DOMAIN inst : WatchSend(i)
  \/ \E i \in DOMAIN inst : WatchLock(i)
  \/ \E i \in DOMAIN inst : WatchStateChanged(i)
  \/ \E i \in DOMAIN inst, m \in BusMessages : BusPost(i, m)
  \/ \E p \in Procs : Return(p)

Spec == Init /\ [][Next]_vars

TypeOK ==
  /\ next_id \in 0..(MAX_PIPELINES + MaxOps)
  /\ Len(inst) <= MAX_PIPELINES + MaxOps
  /\ opsLeft \in 0..MaxOps
  /\ \A p \in Procs : pc[p] = "idle" => frame[p] = IdleFrame

\* ---------------------------------------------------------------- fairness
\* the runtime keeps scheduling a call that has started and a watcher task
\* that has something to do; nothing obliges a client to start a call or
\* the framework to post a message
Progress(p) ==
  \/ AddLimit(p) \/ AddInsert(p) \/ AddPublish(p)
  \/ (\E d \in Descriptions : AddAlloc(p, d))
  \/ GetResolve(p) \/ GetLock(p) \/ CountRead(p)
  \/ (\E op \in ReadOps : GetRead(p, op))
  \/ (\E t \in Targets, o \in Outcomes : SetState(p, t, o))
  \/ RemLock(p) \/ RemPublish(p) \/ (\E o \in Outcomes : RemStop(p, o))
  \/ UpdCheck(p) \/ UpdLockOld(p) \/ UpdPublish(p)
  \/ (\E o \in Outcomes : UpdSwap(p, o))
  \/ ShutLock1(p) \/ ShutSignal(p) \/ ShutLock2(p)
  \/ (\E o \in Outcomes : ShutStop(p, o))
  \/ ListSnap(p) \/ ListLock(p) \/ ListRead(p)
  \/ Return(p)

Watch(i) ==
  /\ i \in DOMAIN inst
  /\ WatchPop(i) \/ WatchExit(i) \/ WatchSend(i) \/ WatchLock(i)
       \/ WatchStateChanged(i)

Instances == 1..(MAX_PIPELINES + MaxOps)

FairSpec ==
  /\ Spec
  /\ \A p \in Procs : WF_vars(Progress(p))
  /\ \A i \in Instances : WF_vars(Watch(i))

\* ------------------------------------------------------------ event fan-out
\* manager calls started in one behaviour of the fan-out specification
FanoutOps == 1

\* main.rs:115,145,179  event_tx.subscribe()
Subscribe(s) ==
  /\ ~subs[s].on
  /\ subs' = [subs EXCEPT ![s] = NewSub(Len(events) + 1)]
  /\ UNCHANGED <<registry, next_id, rw, inst, events, pc, frame, opsLeft,
                 msgsLeft, hist, trk, calc, ws, dbus>>

\* a channel that holds one event more than its capacity
OldestKeepsOneMore ==
  IF Len(events) > EVENT_CHANNEL_CAPACITY + 1
  THEN Len(events) - EVENT_CHANNEL_CAPACITY ELSE 1

\* the oldest position the channel still holds: the last
\* EVENT_CHANNEL_CAPACITY sends are kept
Oldest ==
  IF Len(events) > EVENT_CHANNEL_CAPACITY
  THEN Len(events) - EVENT_CHANNEL_CAPACITY + 1 ELSE 1

\* a recv that hands out the event it handed out last
RecvRepeats(s) ==
  /\ subs[s].on
  /\ subs[s].pos <= Len(events)
  /\ subs' = [subs EXCEPT ![s].last = IF subs[s].last = 0 THEN subs[s].pos
                                      ELSE subs[s].last,
                          ![s].lag = 0,
                          ![s].n = @ + 1]
  /\ UNCHANGED <<registry, next_id, rw, inst, events, pc, frame, opsLeft,
                 msgsLeft, hist, trk, calc, ws, dbus>>

\* websocket/server.rs:82-97, dbus/mod.rs:125-147  event_rx.recv().await
\* completes: Ok(event) with the next event in send order, or Lagged(n)
\* when the receiver's next event is no longer held, after which the
\* receiver continues from the oldest event held
Recv(s) ==
  /\ subs[s].on
  /\ subs[s].pos <= Len(events)
  /\ IF subs[s].pos < Oldest
     THEN subs' = [subs EXCEPT ![s].pos = Oldest,
                               ![s].lag = Oldest - subs[s].pos,
                               ![s].missed = @ + Oldest - subs[s].pos]
     ELSE subs' = [subs EXCEPT ![s].pos = @ + 1,
                               ![s].last = subs[s].pos,
                               ![s].lag = 0,
                               ![s].n = @ + 1]
  /\ UNCHANGED <<registry, next_id, rw, inst, events, pc, frame, opsLeft,
                 msgsLeft, hist, trk, calc, ws, dbus>>

\* the manager with FanoutOps calls to come and no receiver yet
FanoutInit == \E n \in 0..MAX_PIPELINES : InitState(n, FanoutOps, {})

FanoutNext ==
  \/ Next
  \/ \E s \in Subs : Subscribe(s)
  \/ \E s \in Subs : Recv(s)

FanoutSpec == FanoutInit /\ [][FanoutNext]_vars

\* the manager with FanoutOps calls to come, under the scheduling of
\* FairSpec
LiveSpec ==
  /\ FanoutInit /\ [][Next]_vars
  /\ \A p \in Procs : WF_vars(Progress(p))
  /\ \A i \in Instances : WF_vars(Watch(i))

\* ----------------------------------------------------------- playback mode
\* --pipeline arguments whose pipeline was created, in playback mode
PlaybackPipelines == 2

\* manager calls that clients make in one behaviour of playback mode
PlaybackOps == 1

EXIT_CODE_ERROR == 1
EXIT_CODE_UNSUPPORTED == 69

\* a choice of code in which unsupported wins over error
CompletionCodeUnsupportedFirst(had_error, had_unsupported) ==
  IF had_unsupported THEN EXIT_CODE_UNSUPPORTED
  ELSE IF had_error THEN EXIT_CODE_ERROR
  ELSE 0

\* main.rs:319-326  error takes priority over unsupported
CompletionCode(had_error, had_unsupported) ==
  IF had_error THEN EXIT_CODE_ERROR
  ELSE IF had_unsupported THEN EXIT_CODE_UNSUPPORTED
  ELSE 0

\* main.rs:317-329  the end of a loop iteration: with pending empty the code
\* is sent on done_tx and the task returns, which drops its receiver
EndIteration(t) ==
  IF t.pending = {}
  THEN [t EXCEPT !.phase = "done",
                 !.codes = Append(@, CompletionCode(t.had_error,
                                                    t.had_unsupported)),
                 !.rx = [@ EXCEPT !.on = FALSE]]
  ELSE [t EXCEPT !.phase = "recv"]

\* a tracker for which pipeline_removed and error count whether or not the
\* id is pending
TrackEventCountsAgain(t, ev) ==
  LET id == ev.pipeline_id
  IN  IF ev.event = "eos" THEN [t EXCEPT !.pending = @ \ {id}]
      ELSE IF ev.event \in {"error", "pipeline_removed"}
      THEN [t EXCEPT !.pending = @ \ {id}, !.had_error = TRUE]
      ELSE IF ev.event = "unsupported"
      THEN [t EXCEPT !.pending = @ \ {id}, !.had_unsupported = TRUE]
      ELSE t

\* main.rs:230-282  the match on a received event
TrackEvent(t, ev) ==
  LET id == ev.pipeline_id
  IN  IF ev.event = "eos" THEN [t EXCEPT !.pending = @ \ {id}]
      ELSE IF ev.event \in {"error", "pipeline_removed"}
      THEN IF id \in t.pending
           THEN [t EXCEPT !.pending = @ \ {id}, !.had_error = TRUE]
           ELSE t
      ELSE IF ev.event = "unsupported"
      THEN IF id \in t.pending
           THEN [t EXCEPT !.pending = @ \ {id}, !.had_unsupported = TRUE]
           ELSE t
      ELSE t

\* a subscription that is not made
PlaybackSubscriptionMissing(k) == NoSub

\* main.rs:113-117  Some(event_tx.subscribe()) when the next send is number k
PlaybackSubscription(k) == NewSub(k)

\* main.rs:96-123  playback mode after the initial pipelines were added and
\* the tracker's receiver was created; no pipeline has been played yet
PlaybackInit ==
  \E n \in 1..PlaybackPipelines :
    /\ ManagerState(n, PlaybackOps, {})
    /\ trk = [NoTracker EXCEPT
                !.phase = "play",
                !.rx = PlaybackSubscription(n + 1),
                !.ids = [k \in 1..n |-> to_string(k - 1)],
                !.k = 1]
    /\ calc = NoCalc
    /\ ws = NoWs
    /\ dbus = NoDbus

\* manager.play_all(&initial_pipeline_ids): play is called for the next id
\* of the list, and the id is kept when the call fails
PlayNext(outcome) ==
  /\ trk.phase = "play"
  /\ trk.k <= Len(trk.ids)
  /\ CanRead
  /\ LET id == trk.ids[trk.k]
     IN  IF id \in DOMAIN registry
         THEN /\ inst[registry[id]].lock = ""
              /\ inst' = [inst EXCEPT ![registry[id]] =
                            GraphSetState(@, "playing", outcome)]
              /\ trk' = [trk EXCEPT
                           !.k = @ + 1,
                           !.failed = IF outcome = "fail" THEN @ \cup {id}
                                      ELSE @]
         ELSE /\ inst' = inst
              /\ trk' = [trk EXCEPT !.k = @ + 1, !.failed = @ \cup {id}]
  /\ UNCHANGED <<registry, next_id, rw, events, pc, frame, opsLeft,
                 msgsLeft, hist, subs, calc, ws, dbus>>

\* the ids given to play_all
Tracked == {trk.ids[k] : k \in 1..Len(trk.ids)}

\* main.rs:202-226  play_all has returned: pending is the ids that did not
\* fail, had_error starts set when one failed, and with nothing pending the
\* task sends EXIT_CODE_ERROR at once
TrackerStart ==
  /\ trk.phase = "play"
  /\ trk.k > Len(trk.ids)
  /\ LET pending == Tracked \ trk.failed
         t == [trk EXCEPT !.pending = pending,
                          !.had_error = trk.failed # {},
                          !.had_unsupported = FALSE]
     IN  trk' = IF pending = {}
                THEN [t EXCEPT !.phase = "done",
                               !.codes = Append(@, EXIT_CODE_ERROR),
                               !.rx = [@ EXCEPT !.on = FALSE]]
                ELSE [t EXCEPT !.phase = "recv"]
  /\ UNCHANGED <<registry, next_id, rw, inst, events, pc, frame, opsLeft,
                 msgsLeft, hist, subs, calc, ws, dbus>>

\* main.rs:229-283,317-329  event_rx.recv() returns Ok(event)
TrackerRecv ==
  /\ trk.phase = "recv"
  /\ trk.rx.pos <= Len(events)
  /\ trk.rx.pos >= Oldest
  /\ LET rx == [trk.rx EXCEPT !.pos = @ + 1, !.last = trk.rx.pos,
                              !.lag = 0, !.n = @ + 1]
     IN  trk' = EndIteration(
                  TrackEvent([trk EXCEPT !.rx = rx], events[trk.rx.pos]))
  /\ UNCHANGED <<registry, next_id, rw, inst, events, pc, frame, opsLeft,
                 msgsLeft, hist, subs, calc, ws, dbus>>

\* main.rs:284-290  event_rx.recv() returns Lagged(n): the ids to ask the
\* manager about are those pending now
TrackerLagged ==
  /\ trk.phase = "recv"
  /\ trk.rx.pos < Oldest
  /\ trk' = [trk EXCEPT
               !.rx = [@ EXCEPT !.pos = Oldest,
                                !.lag = Oldest - trk.rx.pos,
                                !.missed = @ + Oldest - trk.rx.pos],
               !.phase = "reconcile",
               !.todo = trk.pending,
               !.gone = {}]
  /\ UNCHANGED <<registry, next_id, rw, inst, events, pc, frame, opsLeft,
                 msgsLeft, hist, subs, calc, ws, dbus>>

\* an answer that reports every pipeline as missing
IsGoneAlways(id) == TRUE

\* manager.rs:136-153  get_pipeline_info(id).is_err(): the id is not in the
\* map
IsGone(id) == id \notin DOMAIN registry

\* main.rs:291-298  tracker_manager.get_pipeline_info(id).await for one
\* pending id: the read lock, then the pipeline's mutex when the id is there
TrackerQuery(id) ==
  /\ trk.phase = "reconcile"
  /\ id \in trk.todo
  /\ CanRead
  /\ id \in DOMAIN registry => inst[registry[id]].lock = ""
  /\ trk' = [trk EXCEPT !.todo = @ \ {id},
                        !.gone = IF IsGone(id) THEN @ \cup {id} ELSE @]
  /\ UNCHANGED <<registry, next_id, rw, inst, events, pc, frame, opsLeft,
                 msgsLeft, hist, subs, calc, ws, dbus>>

\* main.rs:299-309,317-329  the ids found gone leave pending and set
\* had_error
TrackerReconciled ==
  /\ trk.phase = "reconcile"
  /\ trk.todo = {}
  /\ trk' = EndIteration([trk EXCEPT !.pending = @ \ trk.gone,
                                     !.had_error = @ \/ trk.gone # {}])
  /\ UNCHANGED <<registry, next_id, rw, inst, events, pc, frame, opsLeft,
                 msgsLeft, hist, subs, calc, ws, dbus>>

\* the tracker task and the call to play_all before it
Tracker ==
  \/ \E o \in Outcomes : PlayNext(o)
  \/ TrackerStart
  \/ TrackerRecv
  \/ TrackerLagged
  \/ \E id \in trk.todo : TrackerQuery(id)
  \/ TrackerReconciled

\* the client task that removes tracked pipelines while they play
PlaybackClient == "c1"

\* main.rs:137-190  the transports start after play_all has returned, so
\* clients call the manager from then on
PlaybackNext ==
  \/ \E o \in Outcomes : PlayNext(o)
  \/ TrackerStart
  \/ TrackerRecv
  \/ TrackerLagged
  \/ \E id \in trk.todo : TrackerQuery(id)
  \/ TrackerReconciled
  \/ \E i \in DOMAIN inst : WatchPop(i)
  \/ \E i \in DOMAIN inst : WatchSend(i)
  \/ \E i \in DOMAIN inst : WatchLock(i)
  \/ \E i \in DOMAIN inst : WatchStateChanged(i)
  \/ \E i \in DOMAIN inst, m \in BusMessages : BusPost(i, m)
  \/ (trk.phase # "play") /\ \E id \in Tracked : RemStart(PlaybackClient, id)
  \/ RemLock(PlaybackClient)
  \/ \E o \in Outcomes : RemStop(PlaybackClient, o)
  \/ RemPublish(PlaybackClient)
  \/ Return(PlaybackClient)

PlaybackSpec == PlaybackInit /\ [][PlaybackNext]_vars

\* ------------------------------------------------ evaluating the classifier
\* filler characters put before and after a pattern
MaxPad == 1

Fill(n) == [j \in 1..n |-> "x"]

Casings == {"lower", "upper", "capital"}

\* a pattern written in one of the casings
Cased(p, c) ==
  [j \in 1..Len(p) |->
     IF c = "upper" \/ (c = "capital" /\ j = 1) THEN Upper(p[j]) ELSE p[j]]

\* messages given to the classifier: every pattern in every casing with
\* filler around it, every pattern cut short by a character, and messages
\* of other errors
ClassifyInputs ==
  {Fill(a) \o Cased(media_patterns[k], c) \o Fill(b) :
     k \in 1..Len(media_patterns), c \in Casings,
     a \in 0..MaxPad, b \in 0..MaxPad}
  \cup {Cased(SubSeq(media_patterns[k], 1, Len(media_patterns[k]) - 1), c) :
          k \in 1..Len(media_patterns), c \in Casings}
  \cup {GenericFailure, InternalDataStreamError, NoSuitableDecoder, <<>>}

\* nothing but the function under evaluation
CalcInit(fn, arg) ==
  /\ ManagerState(0, 0, {})
  /\ trk = NoTracker
  /\ calc = [fn |-> fn, arg |-> arg, out |-> <<>>, done |-> FALSE]
  /\ ws = NoWs
  /\ dbus = NoDbus

\* the call is_media_not_supported_error(&error)
Classify ==
  /\ calc.fn = "is_media_not_supported_error"
  /\ ~calc.done
  /\ calc' = [calc EXCEPT !.out = is_media_not_supported_error(calc.arg),
                          !.done = TRUE]
  /\ UNCHANGED <<registry, next_id, rw, inst, events, pc, frame, opsLeft,
                 msgsLeft, hist, subs, trk, ws, dbus>>

ClassifySpec ==
  /\ \E m \in ClassifyInputs : CalcInit("is_media_not_supported_error", m)
  /\ [][Classify]_vars

\* --------------------------------------------------- evaluating Pipeline::new
\* the largest id number given to Pipeline::new
MaxId == 5

\* the descriptions given to Pipeline::new: those that clients send, the
\* empty one, one with blanks around it, a well-formed one and an unknown
\* element name of exactly the longest length, blanks beyond that length,
\* and an element name that the framework's message calls unsupported
NewDescriptions ==
  Descriptions
    \cup {Desc("", 0),
          Desc(" fakesrc ! fakesink ", 20),
          Desc("fakesrc ! fakesink   ...", MAX_PIPELINE_DESCRIPTION_LENGTH),
          Desc("aaaa...", MAX_PIPELINE_DESCRIPTION_LENGTH),
          Desc("   ", MAX_PIPELINE_DESCRIPTION_LENGTH + 1),
          Desc("fakesrc ! unsupported_xyz", 25)}

\* pipeline.rs:71-113  Pipeline::new(id, description): the result, and
\* whether gst::parse::launch was called on the way
PipelineNew(id, d) ==
  [res |-> IF PipelineNewError(d) # NoRes THEN PipelineNewError(d)
           ELSE Ok(NewPipeline(id, d)),
   parsed |-> Validate(d) = NoRes]

\* the call Pipeline::new(id, description)
New ==
  /\ calc.fn = "Pipeline::new"
  /\ ~calc.done
  /\ calc' = [calc EXCEPT !.out = PipelineNew(calc.arg[1], calc.arg[2]),
                          !.done = TRUE]
  /\ UNCHANGED <<registry, next_id, rw, inst, events, pc, frame, opsLeft,
                 msgsLeft, hist, subs, trk, ws, dbus>>

NewSpec ==
  /\ \E k \in 0..MaxId, d \in NewDescriptions :
       CalcInit("Pipeline::new", <<to_string(k), d>>)
  /\ [][New]_vars

\* ------------------------------------------------------- WebSocket server
\* websocket/mod.rs:18 sets 1000; scaled down
MAX_CONCURRENT_CLIENTS == 1

\* websocket/mod.rs:21 sets 256; scaled down
CLIENT_MESSAGE_BUFFER == 1

\* text frames that clients send in one behaviour
WsFrames == 1

\* events that reach the broadcaster in one behaviour
WsEvents == 2

\* peer addresses
Conns == {"a1", "a2"}

\* HeaderValue::to_str: the value as text when every byte is a tab or a
\* visible ASCII character
to_str(v) ==
  IF \A k \in 1..Len(v) : v[k] = 9 \/ (v[k] >= 32 /\ v[k] < 127)
  THEN Some(v) ELSE None

\* .to_str().unwrap_or("")
ToStrOrEmpty(v) == IF to_str(v).some THEN to_str(v).value ELSE <<>>

\* provided.len() == expected.len() && provided.ct_eq(expected)
CtEq(provided, expected) ==
  /\ Len(provided) = Len(expected)
  /\ \A k \in 1..Len(provided) : provided[k] = expected[k]

SWITCHING_PROTOCOLS == 101
UNAUTHORIZED == 401
FORBIDDEN == 403

\* server.rs:157-221  the status the upgrade request is answered with:
\* accept_async when nothing is configured, the callback otherwise
HandshakeStatus(cfg, origin, auth) ==
  IF ~cfg.key.some /\ ~cfg.origins.some THEN SWITCHING_PROTOCOLS
  ELSE IF /\ cfg.origins.some
          /\ origin.some
          /\ ~\E o \in cfg.origins.value : o = ToStrOrEmpty(origin.value)
       THEN FORBIDDEN
  ELSE IF cfg.key.some
       THEN IF auth.some
            THEN IF CtEq(ToStrOrEmpty(auth.value), cfg.key.value)
                 THEN SWITCHING_PROTOCOLS ELSE FORBIDDEN
            ELSE UNAUTHORIZED
  ELSE SWITCHING_PROTOCOLS

NoConn == [phase |-> "none", origin |-> None, auth |-> None, status |-> 0]

\* WebSocketServer::new and run: no connection yet
WsServer(cfg) ==
  [on |-> TRUE, cfg |-> cfg,
   conn |-> [c \in Conns |-> NoConn],
   clients |-> {},
   chan |-> [c \in Conns |-> <<>>],
   wire |-> [c \in Conns |-> <<>>],
   asked |-> [c \in Conns |-> <<>>],
   framesLeft |-> WsFrames, eventsLeft |-> WsEvents]

\* main.rs:168-178  --allowed-origin and --api-key as given.  Header values
\* and configured strings are sequences of bytes: "a" is an origin on the
\* allow-list and "e" one that is not, "k" is a key and "w" a wrong one, and
\* an origin and a key each have a letter in UTF-8 (C3 BC, C3 A4).
WsInit ==
  \E n \in 0..MAX_PIPELINES,
     cfg \in [origins : {None, Some({<<97>>}), Some({<<97>>, <<195, 188>>})},
              key : {None, Some(<<107>>), Some(<<195, 164>>)}] :
    /\ ManagerState(n, 0, {})
    /\ trk = NoTracker
    /\ calc = NoCalc
    /\ ws = WsServer(cfg)
    /\ dbus = NoDbus

\* server.rs:132-153  a connection arrives with its upgrade request; it is
\* dropped when the client map is full
WsConnect(c, origin, auth) ==
  /\ ws.conn[c].phase = "none"
  /\ ws' = [ws EXCEPT
              !.conn[c] =
                IF Cardinality(ws.clients) >= MAX_CONCURRENT_CLIENTS
                THEN [NoConn EXCEPT !.phase = "dropped"]
                ELSE [phase |-> "handshake", origin |-> origin,
                      auth |-> auth, status |-> 0]]
  /\ UNCHANGED <<registry, next_id, rw, inst, events, pc, frame, opsLeft,
                 msgsLeft, hist, subs, trk, calc, dbus>>

\* server.rs:156-235  the upgrade is answered; a refused connection ends
WsHandshake(c) ==
  /\ ws.conn[c].phase = "handshake"
  /\ LET s == HandshakeStatus(ws.cfg, ws.conn[c].origin, ws.conn[c].auth)
     IN  ws' = [ws EXCEPT
                  !.conn[c] = [NoConn EXCEPT
                                 !.status = s,
                                 !.phase = IF s = SWITCHING_PROTOCOLS
                                           THEN "upgraded" ELSE "refused"]]
  /\ UNCHANGED <<registry, next_id, rw, inst, events, pc, frame, opsLeft,
                 msgsLeft, hist, subs, trk, calc, dbus>>

\* server.rs:228-235  mpsc::channel(CLIENT_MESSAGE_BUFFER) and
\* clients_map.insert(addr, tx)
WsRegister(c) ==
  /\ ws.conn[c].phase = "upgraded"
  /\ ws' = [ws EXCEPT !.conn[c].phase = "open",
                      !.clients = @ \cup {c},
                      !.chan[c] = <<>>]
  /\ UNCHANGED <<registry, next_id, rw, inst, events, pc, frame, opsLeft,
                 msgsLeft, hist, subs, trk, calc, dbus>>

\* a send that makes room by dropping the oldest queued message
TrySendEvicts(q, msg) ==
  IF Len(q) < CLIENT_MESSAGE_BUFFER THEN Append(q, msg)
  ELSE Append(Tail(q), msg)

\* tx.try_send(msg): the message is queued unless the channel is full
TrySend(q, msg) == IF Len(q) < CLIENT_MESSAGE_BUFFER THEN Append(q, msg) ELSE q

WsFrame(kind, id) == [kind |-> kind, id |-> id]

PARSE_ERROR == -32700
METHOD_NOT_FOUND == -32601
PIPELINE_NOT_FOUND == -32000

\* protocol.rs:75-92  a JSON-RPC response: code 0 stands for a result
Response(id, code) == [type |-> "response", id |-> id, code |-> code]

\* websocket/pipeline.rs:79-84  SnapshotResult has no id
SnapshotResponse == [type |-> "SnapshotResponse", id |-> "", code |-> 0]

\* server.rs:253-292  the message built for a text frame: text that is not
\* JSON, JSON with an id but no method, a call of a known method, a call of
\* an unknown one, a snapshot of DEFAULT_PIPELINE_ID ("0", mod.rs:30)
ResponseFor(f) ==
  IF f.kind = "garbage" THEN Response("unknown", PARSE_ERROR)
  ELSE IF f.kind = "no_method" THEN Response(f.id, PARSE_ERROR)
  ELSE IF f.kind = "snapshot"
       THEN IF to_string(0) \in DOMAIN registry
            THEN SnapshotResponse
            ELSE Response(f.id, PIPELINE_NOT_FOUND)
  ELSE IF f.kind = "get_version" THEN Response(f.id, 0)
  ELSE Response(f.id, METHOD_NOT_FOUND)

\* server.rs:250-295  a text frame is read, answered, and the answer handed
\* to the client's channel with try_send
WsText(c, kind) ==
  /\ ws.conn[c].phase = "open"
  /\ ws.framesLeft > 0
  /\ LET f == WsFrame(kind, "r1")
     IN  ws' = [ws EXCEPT
                  !.framesLeft = @ - 1,
                  !.asked[c] = Append(@, f),
                  !.chan[c] = IF c \in ws.clients
                              THEN TrySend(@, ResponseFor(f)) ELSE @]
  /\ UNCHANGED <<registry, next_id, rw, inst, events, pc, frame, opsLeft,
                 msgsLeft, hist, subs, trk, calc, dbus>>

\* server.rs:80-94  the broadcaster has received an event: try_send to
\* every registered client
\* the serialized event; code holds its position in the order in which
\* the broadcaster received the events
EventText(k) == [type |-> "event", id |-> "", code |-> k]

WsBroadcast ==
  /\ ws.on
  /\ ws.eventsLeft > 0
  /\ ws' = [ws EXCEPT
              !.eventsLeft = @ - 1,
              !.chan = [c \in Conns |->
                          IF c \in ws.clients
                          THEN TrySend(ws.chan[c],
                                       EventText(WsEvents - ws.eventsLeft + 1))
                          ELSE ws.chan[c]]]
  /\ UNCHANGED <<registry, next_id, rw, inst, events, pc, frame, opsLeft,
                 msgsLeft, hist, subs, trk, calc, dbus>>

\* server.rs:240-246  sender_task: rx.recv() then ws_sender.send(msg)
WsForward(c) ==
  /\ ws.conn[c].phase = "open"
  /\ ws.chan[c] # <<>>
  /\ ws' = [ws EXCEPT !.chan[c] = Tail(@),
                      !.wire[c] = Append(@, Head(ws.chan[c]))]
  /\ UNCHANGED <<registry, next_id, rw, inst, events, pc, frame, opsLeft,
                 msgsLeft, hist, subs, trk, calc, dbus>>

\* server.rs:296-327  the client closes: the loop ends, the client is
\* unregistered and sender_task aborted
WsClose(c) ==
  /\ ws.conn[c].phase = "open"
  /\ ws' = [ws EXCEPT !.conn[c].phase = "closed",
                      !.clients = @ \ {c},
                      !.chan[c] = <<>>]
  /\ UNCHANGED <<registry, next_id, rw, inst, events, pc, frame, opsLeft,
                 msgsLeft, hist, subs, trk, calc, dbus>>

WsNext ==
  \/ \E c \in Conns,
        o \in {None, Some(<<97>>), Some(<<101>>), Some(<<195, 188>>)},
        a \in {None, Some(<<107>>), Some(<<119>>), Some(<<195, 164>>)} :
       WsConnect(c, o, a)
  \/ \E c \in Conns : WsHandshake(c)
  \/ \E c \in Conns : WsRegister(c)
  \/ \E c \in Conns,
        k \in {"garbage", "no_method", "get_version", "bogus", "snapshot"} :
       WsText(c, k)
  \/ WsBroadcast
  \/ \E c \in Conns : WsForward(c)
  \/ \E c \in Conns : WsClose(c)

WsSpec == WsInit /\ [][WsNext]_vars

\* ------------------------------------------------ JSON-RPC responses
PIPELINE_CREATION_FAILED == -32001
STATE_CHANGE_FAILED == -32002
GSTREAMER_ERROR == -32003
DESCRIPTION_TOO_LONG == -32004
MEDIA_NOT_SUPPORTED == -32005
INVALID_PARAMS == -32602
INTERNAL_ERROR == -32603

\* protocol.rs:92-99  Response::success
success(id, v) == [id |-> id, result |-> Some(v), error |-> None]

\* protocol.rs:101-108  Response::error
error(id, code, m) ==
  [id |-> id, result |-> None, error |-> Some([code |-> code, message |-> m])]

\* protocol.rs:144-160  Response::from_gpop_error
from_gpop_error(id, e) ==
  error(id,
        CASE e.err = "PipelineNotFound" -> PIPELINE_NOT_FOUND
          [] e.err = "InvalidPipeline" -> PIPELINE_CREATION_FAILED
          [] e.err = "StateChangeFailed" -> STATE_CHANGE_FAILED
          [] e.err = "MediaNotSupported" -> MEDIA_NOT_SUPPORTED
          [] e.err = "GStreamer" -> GSTREAMER_ERROR
          [] OTHER -> INTERNAL_ERROR,
        e.msg)

\* websocket/manager.rs:45-232  ManagerInterface::handle for a request whose
\* params do or do not deserialize and whose manager call returns res
Handle(req, res) ==
  IF req.method = "bogus" THEN error(req.id, METHOD_NOT_FOUND, req.method)
  ELSE IF ~req.params_ok THEN error(req.id, INVALID_PARAMS, "Invalid params")
  ELSE IF res.ok THEN success(req.id, res.val)
  ELSE from_gpop_error(req.id, res)

\* the result of the manager call a request leads to: add_pipeline fails
\* as Pipeline::new does, the calls on a pipeline id fail with the error
\* the request names
ManagerResult(req) ==
  IF req.method = "create_pipeline"
  THEN IF PipelineNewError(req.desc) # NoRes
       THEN PipelineNewError(req.desc) ELSE Ok(to_string(0))
  ELSE req.outcome

\* requests: create_pipeline with each description, set_state with each
\* outcome of the manager call, either of them with params that do not
\* deserialize, and a method the handler does not know
Requests ==
  [id : {"r1", "r2"},
   method : {"create_pipeline"},
   params_ok : BOOLEAN, desc : NewDescriptions, outcome : {NoRes}]
  \cup
  [id : {"r1", "r2"},
   method : {"set_state", "bogus"},
   params_ok : BOOLEAN,
   desc : {DFake},
   outcome : {Ok(<<>>)} \cup
             {Err(k, "failed") :
                k \in {"PipelineNotFound", "InvalidPipeline",
                       "StateChangeFailed", "MediaNotSupported",
                       "GStreamer", "WebSocket", "Json", "Io"}}]

\* the call handler.handle(request)
Rpc ==
  /\ calc.fn = "handle"
  /\ ~calc.done
  /\ calc' = [calc EXCEPT !.out = Handle(calc.arg, ManagerResult(calc.arg)),
                          !.done = TRUE]
  /\ UNCHANGED <<registry, next_id, rw, inst, events, pc, frame, opsLeft,
                 msgsLeft, hist, subs, trk, ws, dbus>>

RpcSpec == (\E r \in Requests : CalcInit("handle", r)) /\ [][Rpc]_vars

\* ------------------------------------------------------ DBus object model
\* dbus/mod.rs:59-88  register_pipeline: the next index is taken and
\* next_index incremented; the object is put on the object server at
\* /org/gpop/Pipeline{index}; when that fails the call returns before the
\* mapping is stored
register_pipeline(d, pipeline_id, outcome) ==
  LET index == d.next_index
      taken == [d EXCEPT !.next_index = @ + 1]
  IN IF outcome = "fail" THEN taken
     ELSE [taken EXCEPT
             !.objects = @ \cup {index},
             !.pipeline_indices = Insert(@, pipeline_id, index)]

\* dbus/mod.rs:90-116  unregister_pipeline: the mapping is removed; when
\* there was one, the object at its path is removed from the object server,
\* which may fail; an unknown id is logged
unregister_pipeline(d, pipeline_id, outcome) ==
  IF pipeline_id \in DOMAIN d.pipeline_indices
  THEN [d EXCEPT
          !.pipeline_indices = Remove(@, pipeline_id),
          !.objects = IF outcome = "fail" THEN @
                      ELSE @ \ {d.pipeline_indices[pipeline_id]}]
  ELSE d

\* dbus/mod.rs:123-154  run_dbus_event_forwarder, one turn of its loop:
\* recv() reports the lag and moves on, or hands out the next event;
\* pipeline_added registers, pipeline_removed unregisters, every other event
\* is ignored; an Err of either call is logged
run_dbus_event_forwarder(outcome) ==
  /\ dbus.on
  /\ subs["dbus"].on
  /\ subs["dbus"].pos <= Len(events)
  /\ IF subs["dbus"].pos < Oldest
     THEN /\ subs' = [subs EXCEPT !["dbus"].pos = Oldest,
                                  !["dbus"].lag = Oldest - subs["dbus"].pos,
                                  !["dbus"].missed =
                                     @ + Oldest - subs["dbus"].pos]
          /\ dbus' = dbus
     ELSE /\ subs' = [subs EXCEPT !["dbus"].pos = @ + 1,
                                  !["dbus"].last = subs["dbus"].pos,
                                  !["dbus"].lag = 0,
                                  !["dbus"].n = @ + 1]
          /\ LET event == events[subs["dbus"].pos]
             IN dbus' =
                  IF event.event = "pipeline_added"
                  THEN register_pipeline(dbus, event.pipeline_id, outcome)
                  ELSE IF event.event = "pipeline_removed"
                  THEN unregister_pipeline(dbus, event.pipeline_id, outcome)
                  ELSE dbus
  /\ UNCHANGED <<registry, next_id, rw, inst, events, pc, frame, opsLeft,
                 msgsLeft, hist, trk, calc, ws>>

\* main.rs:96-148  the pipelines of the --pipeline arguments are added, then
\* DbusServer::new runs and the forwarder's receiver is subscribed
DbusInit ==
  \E n \in 0..MAX_PIPELINES :
    /\ ManagerState(n, MaxOps, {"dbus"})
    /\ trk = NoTracker
    /\ calc = NoCalc
    /\ ws = NoWs
    /\ dbus = DbusServerNew(TRUE)

\* the manager's clients and watchers, and the forwarder task
DbusNext ==
  \/ Next
  \/ \E o \in Outcomes : run_dbus_event_forwarder(o)

DbusSpec == DbusInit /\ [][DbusNext]_vars

\* ================================================================== claims
Done(p, op) == pc[p] = "done" /\ frame[p].op = op
AddedOk(p) == Done(p, "add_pipeline") /\ frame[p].res.ok

IsDecimal(s) ==
  /\ Len(s) > 0
  /\ \A k \in 1..Len(s) : \E j \in 1..10 : s[k] = DigitChars[j]

\* C1: the id a successful add_pipeline returns is a non-empty string of
\* decimal digits and differs from the id of every other add_pipeline call
\* that has returned or is returning, whatever failed in between.
C1_UniqueDecimalIds ==
  \A p \in Procs :
    AddedOk(p) =>
      /\ IsDecimal(frame[p].res.val)
      /\ frame[p].res.val \notin hist.returned
      /\ \A q \in Procs \ {p} :
           AddedOk(q) => frame[q].res.val # frame[p].res.val

\* two concurrent add_pipeline calls are both returning an id
C1_Witness ==
  \E p, q \in Procs : p # q /\ AddedOk(p) /\ AddedOk(q)

\* C2: the registry never holds more than MAX_PIPELINES entries.
C2_RegistryWithinLimit == Count(registry) <= MAX_PIPELINES

\* C3: an add_pipeline call that returns an error has taken no write lock,
\* changed no registry entry, constructed no pipeline, started no watcher
\* and sent no event; with no other call changing the registry meanwhile,
\* the registry is the one the call found.
C3_FailedAddLeavesNoTrace ==
  \A p \in Procs :
    (Done(p, "add_pipeline") /\ ~frame[p].res.ok) =>
      /\ ~frame[p].wlock /\ ~frame[p].mutated /\ ~frame[p].spawned
      /\ frame[p].made = 0
      /\ frame[p].sent = <<>>
      /\ frame[p].clean => registry = frame[p].reg0

\* an add_pipeline call is failing on the limit with the registry full
C3_Witness ==
  \E p \in Procs :
    /\ Done(p, "add_pipeline") /\ frame[p].res.msg = "limit"
    /\ frame[p].clean /\ Count(registry) = MAX_PIPELINES

\* the calls that name a pipeline id; a lookup that found nothing is still
\* the get_pipeline all of them start with
PerIdOps == ReadOps \cup {"get_pipeline", "set_state", "update_pipeline",
                          "remove_pipeline"}

AfterRemove(p) ==
  pc[p] = "done" /\ frame[p].op \in PerIdOps /\ frame[p].after

\* C4 as claimed: every call on an id that is started after
\* remove_pipeline(id) returned success fails with PipelineNotFound.
C4_AfterRemoveNotFound ==
  \A p \in Procs : AfterRemove(p) => frame[p].res.err = "PipelineNotFound"

\* C4: every call on an id that is started after remove_pipeline(id)
\* returned success fails: with PipelineNotFound, except that
\* update_pipeline with a description Pipeline::new rejects fails with that
\* construction error.
C4_AfterRemoveFails ==
  \A p \in Procs :
    AfterRemove(p) =>
      /\ ~frame[p].res.ok
      /\ IF frame[p].op = "update_pipeline"
            /\ PipelineNewError(frame[p].desc) # NoRes
         THEN frame[p].res = PipelineNewError(frame[p].desc)
         ELSE frame[p].res.err = "PipelineNotFound"

\* a call with a well-formed request, started after the removal, is failing
C4_Witness ==
  \E p \in Procs :
    /\ AfterRemove(p) /\ frame[p].res.err = "PipelineNotFound"
    /\ frame[p].id \in hist.removedOk

\* an update has taken the old pipeline out and not yet put the new one in
InSwap(p) == pc[p] \in {"upd_lock_old", "upd_swap"}

\* an observer reads the registry in this step
ObserverReads(q) ==
  /\ pc[q] \in {"get_resolve", "list_snap", "count_read"}
  /\ pc'[q] # pc[q]

\* C5: no lookup, listing or count reads the registry while an update has
\* the id out of the map: whatever an observer reads holds the id of every
\* update in progress.
C5_NoObserverInSwap ==
  [][\A q \in Procs :
       ObserverReads(q) =>
         \A p \in Procs : InSwap(p) => frame[p].id \in DOMAIN registry]_vars

\* an update is between taking the old pipeline out and inserting the new
\* one while another client is free to start a lookup
C5_Witness ==
  \E p, q \in Procs :
    /\ pc[p] = "upd_swap" /\ frame[p].id \notin DOMAIN registry
    /\ pc[q] = "idle" /\ opsLeft > 0

\* C6: update_pipeline called with a description Pipeline::new rejects
\* returns that error in its first step and that step changes neither the
\* registry, nor any pipeline (description, graph state, watcher), nor the
\* registry lock, nor the events sent.
C6_InvalidUpdateTouchesNothing ==
  [][\A p \in Procs :
       (/\ pc[p] = "idle"
        /\ frame'[p].op = "update_pipeline"
        /\ PipelineNewError(frame'[p].desc) # NoRes)
       => /\ pc'[p] = "done"
          /\ frame'[p].res = PipelineNewError(frame'[p].desc)
          /\ ~frame'[p].wlock /\ ~frame'[p].spawned /\ frame'[p].sent = <<>>
          /\ UNCHANGED <<registry, inst, rw, events>>]_vars

\* an update with a rejected description is returning its error while the
\* pipeline it named is registered with its watcher running
C6_Witness ==
  \E p \in Procs :
    /\ Done(p, "update_pipeline") /\ frame[p].res.err = "InvalidPipeline"
    /\ frame[p].id \in DOMAIN registry
    /\ inst[registry[frame[p].id]].watcher = "running"

\* C7: an update_pipeline that fails with PipelineNotFound has changed no
\* registry entry, started no watcher and sent no event, and the
\* replacement it constructed is dropped; an id whose entry
\* remove_pipeline took out is never in the registry again.
C7_AbsentUpdateInsertsNothing ==
  /\ \A p \in Procs :
       (Done(p, "update_pipeline") /\ frame[p].res.err = "PipelineNotFound")
       => /\ ~frame[p].mutated /\ ~frame[p].spawned
          /\ frame[p].sent = <<>>
          /\ frame[p].clean => frame[p].id \notin DOMAIN registry
          /\ frame[p].made # 0
          /\ inst[frame[p].made].dropped
          /\ inst[frame[p].made].watcher = "none"
  /\ \A id \in hist.takenOut : id \notin DOMAIN registry

\* an update that found its id registered when it was called is failing
\* with PipelineNotFound: remove_pipeline took the entry out in between
C7_Witness ==
  \E p \in Procs :
    /\ Done(p, "update_pipeline") /\ frame[p].res.err = "PipelineNotFound"
    /\ frame[p].id \in DOMAIN frame[p].reg0
    /\ frame[p].id \in hist.takenOut

\* get_pipeline_description(id) on the current state, nothing interleaved
GetPipelineDescription(id) ==
  IF id \in DOMAIN registry
  THEN Ok(ReadValue("get_pipeline_description", inst[registry[id]]))
  ELSE Err("PipelineNotFound", "")

\* C8: when update_pipeline(id, d') returns success and no other call has
\* changed the registry since it started, get_pipeline_description(id)
\* returns d', the pipeline under id is the one the call constructed, and
\* the registry holds as many entries as when the call started.
C8_UpdateReplaces ==
  \A p \in Procs :
    (Done(p, "update_pipeline") /\ frame[p].res.ok /\ frame[p].clean) =>
      /\ GetPipelineDescription(frame[p].id) = Ok(frame[p].desc.text)
      /\ registry[frame[p].id] = frame[p].made
      /\ Count(registry) = Count(frame[p].reg0)

\* an update is returning success having replaced a pipeline that had
\* another description
C8_Witness ==
  \E p \in Procs :
    /\ Done(p, "update_pipeline") /\ frame[p].res.ok /\ frame[p].clean
    /\ inst[frame[p].reg0[frame[p].id]].description # frame[p].desc

\* the pipeline has left the registry through remove_pipeline or
\* update_pipeline
Left(i) == i \in DOMAIN inst /\ inst[i].left \in {"removed", "replaced"}

\* its shutdown flag is set and its watcher task has ended
WatcherStopped(i) ==
  i \in DOMAIN inst /\ inst[i].flag /\ ~WatcherAlive(inst[i])

\* C9: a pipeline that has left the registry through remove_pipeline or
\* update_pipeline eventually has its shutdown flag set and its watcher
\* task ended.
C9_LeavingStopsWatcher ==
  \A i \in Instances : Left(i) ~> WatcherStopped(i)

\* C10: remove_pipeline returns success exactly when it took the entry out
\* of the registry, and exactly then it has sent pipeline_removed{id}.
C10_RemovalAuthoritative ==
  \A p \in Procs :
    Done(p, "remove_pipeline") =>
      /\ frame[p].mutated <=> frame[p].res.ok
      /\ frame[p].mutated <=> frame[p].sent = <<PipelineRemoved(frame[p].id)>>

\* the positions in the send order of the events that carry id
EventsFor(id) == {k \in 1..Len(events) : events[k].pipeline_id = id}

\* C11: for every id, the first event sent for it is pipeline_added: every
\* other event for the id has the id's pipeline_added before it in the send
\* order.
C11_AddedFirst ==
  \A k \in 1..Len(events) :
    events[k].event # "pipeline_added" =>
      \E j \in 1..(k - 1) :
        events[j].event = "pipeline_added"
          /\ events[j].pipeline_id = events[k].pipeline_id

\* C12: for every id, nothing is sent for it after its pipeline_removed.
C12_RemovedLast ==
  \A j \in 1..Len(events) :
    events[j].event = "pipeline_removed" =>
      \A k \in EventsFor(events[j].pipeline_id) : k <= j

\* C13: when update_pipeline is about to send pipeline_updated, its swap is
\* committed and the replacement's watcher has sent no event yet.
C13_UpdatedBeforeNewWatcher ==
  \A p \in Procs :
    pc[p] = "upd_publish" =>
      /\ frame[p].mutated
      /\ inst[frame[p].made].nsent = 0

\* C14: every pipeline in the registry has had start_bus_watch called for it
\* exactly once, has the task handle stored and its watcher task alive; for
\* no pipeline is start_bus_watch called twice.
C14_OneWatcherPerPipeline ==
  /\ \A id \in DOMAIN registry :
       LET rec == inst[registry[id]]
       IN rec.starts = 1 /\ rec.bus_task /\ WatcherAlive(rec)
  /\ \A i \in DOMAIN inst : inst[i].starts <= 1

\* a call has inserted the pipeline it constructed and is about to send
\* its event
C14_Witness ==
  \E p \in Procs :
    /\ pc[p] \in {"add_publish", "upd_publish"}
    /\ frame[p].id \in DOMAIN registry
    /\ registry[frame[p].id] = frame[p].made
    /\ inst[frame[p].made].starts = 1

\* C15: in the step in which shutdown() returns, the registry is empty.
C15_ShutdownLeavesEmpty ==
  [][\A p \in Procs :
       (pc[p] # "done" /\ pc'[p] = "done" /\ frame'[p].op = "shutdown")
       => Count(registry') = 0]_vars

\* shutdown() has drained the pipeline from the registry
Drained(i) == i \in DOMAIN inst /\ inst[i].left = "drained"

InShutdown(p) ==
  pc[p] \in {"shut_lock1", "shut_signal", "shut_lock2", "shut_stop"}

C17_FlagLatched ==
  /\ [](\A i \in DOMAIN inst :
          inst[i].flag => (Drained(i) \/ inst[i].dropped))
  /\ [][/\ \A i \in DOMAIN inst :
             i \in DOMAIN inst' /\ (inst[i].flag => inst'[i].flag)
        /\ \A i \in DOMAIN inst' \ DOMAIN inst : ~inst'[i].flag]_vars

\* a pipeline whose flag signal_shutdown had set has been dropped: Drop has
\* stored true a second time
C17_Witness ==
  \E i \in DOMAIN inst :
    Drained(i) /\ inst[i].watcher = "exited" /\ inst[i].dropped /\ inst[i].flag

\* what a manager call that has returned success is to have sent
Expected(f) ==
  IF ~f.res.ok THEN <<>>
  ELSE IF f.op = "add_pipeline" THEN <<PipelineAdded(f.res.val, f.desc)>>
  ELSE IF f.op = "remove_pipeline" THEN <<PipelineRemoved(f.id)>>
  ELSE IF f.op = "update_pipeline" THEN <<PipelineUpdated(f.id, f.desc)>>
  ELSE <<>>

C19_NoReceiverNoError ==
  [][/\ \A p \in Procs :
          (pc[p] \in {"add_publish", "rem_publish", "upd_publish"}
             /\ pc'[p] # pc[p])
          => /\ pc'[p] = "done"
             /\ frame'[p].res.ok
             /\ registry' = registry
     /\ \A i \in DOMAIN inst :
          inst'[i].nsent # inst[i].nsent => inst'[i].watcher = "running"]_vars

\* with no receiver, update_pipeline is returning success and a watcher has
\* sent two events, the second after the first send found no receiver
C19_Witness ==
  /\ SendFails
  /\ \E p \in Procs : Done(p, "update_pipeline") /\ frame[p].res.ok
  /\ \E i \in DOMAIN inst : inst[i].nsent = 2

C21_LagIsPerReceiver ==
  /\ [](Len(events) - Oldest + 1 <= EVENT_CHANNEL_CAPACITY)
  /\ [](\A s \in Subs :
          subs[s].on => subs[s].n + subs[s].missed = subs[s].pos - subs[s].start)
  /\ [][\A s \in Subs :
          (subs[s].on /\ subs'[s] # subs[s]) =>
            /\ \A t \in Subs \ {s} : subs'[t] = subs[t]
            /\ events' = events
            /\ IF subs[s].pos < Oldest
               THEN /\ subs'[s].lag = Oldest - subs[s].pos
                    /\ subs'[s].pos = Oldest
                    /\ subs'[s].n = subs[s].n
               ELSE /\ subs'[s].lag = 0
                    /\ subs'[s].n = subs[s].n + 1]_vars

\* one receiver has been given Lagged and has gone on to the oldest event
\* held, while the other, subscribed no later, has been handed every event
C21_Witness ==
  \E s, t \in Subs :
    /\ subs[s].on /\ subs[s].missed > 0 /\ subs[s].n > 0
    /\ subs[t].on /\ subs[t].missed = 0 /\ subs[t].start <= subs[s].start
    /\ subs[t].pos = Len(events) + 1 /\ subs[t].n >= 2

\* ------------------------------------------------------------------- C22
\* C22: the playback tracker sends no completion code while its pending set
\* is non-empty, and sends exactly one in the step that leaves pending empty:
\* 0 when neither flag is set, 69 when had_unsupported is set and had_error
\* is not, 1 whenever had_error is set.
C22_CompletionCode ==
  /\ [](trk.pending # {} => trk.codes = <<>>)
  /\ [](Len(trk.codes) <= 1)
  /\ [](trk.codes # <<>> =>
          /\ trk.pending = {}
          /\ (~trk.had_error /\ ~trk.had_unsupported) => trk.codes[1] = 0
          /\ (~trk.had_error /\ trk.had_unsupported) => trk.codes[1] = 69
          /\ trk.had_error => trk.codes[1] = 1)
  /\ [][(trk.pending # {} /\ trk'.pending = {}) =>
          Len(trk'.codes) = 1]_vars
  /\ [][trk.codes # <<>> => trk'.codes = trk.codes]_vars

\* both flags are set when the last pending id goes, and the code is 1
C22_Witness ==
  /\ trk.phase = "done"
  /\ trk.had_error /\ trk.had_unsupported
  /\ trk.codes = <<1>>
  /\ trk.rx.n > 0

\* ------------------------------------------------------------------- C23
\* the events that end the tracking of an id
TerminalEvents == {"eos", "error", "unsupported", "pipeline_removed"}

\* the tracker is handed an event in this step
TrackerReceives == trk.phase = "recv" /\ trk'.rx.n = trk.rx.n + 1

\* C23: an eos, error, unsupported or pipeline_removed event for an id still
\* pending removes the id from pending (error and pipeline_removed set
\* had_error, unsupported sets had_unsupported, eos sets no flag); any other
\* received event, a later one for that id included, changes neither pending
\* nor the flags; no step clears a flag.
C23_EachIdCountedOnce ==
  /\ [][TrackerReceives =>
          LET ev == events[trk.rx.pos]
              id == ev.pipeline_id
          IN  IF id \in trk.pending /\ ev.event \in TerminalEvents
              THEN /\ trk'.pending = trk.pending \ {id}
                   /\ trk'.had_error =
                        (trk.had_error
                           \/ ev.event \in {"error", "pipeline_removed"})
                   /\ trk'.had_unsupported =
                        (trk.had_unsupported \/ ev.event = "unsupported")
              ELSE /\ trk'.pending = trk.pending
                   /\ trk'.had_error = trk.had_error
                   /\ trk'.had_unsupported = trk.had_unsupported]_vars
  /\ [][/\ trk.had_error => trk'.had_error
        /\ trk.had_unsupported => trk'.had_unsupported]_vars

\* the tracker was handed eos and then pipeline_removed for the same id,
\* lost nothing, and had_error is not set
C23_Witness ==
  \E x, y \in 1..Len(events) :
    /\ x < y /\ y < trk.rx.pos
    /\ trk.rx.start <= x
    /\ trk.rx.missed = 0
    /\ events[x].event = "eos"
    /\ events[y].event = "pipeline_removed"
    /\ events[y].pipeline_id = events[x].pipeline_id
    /\ ~trk.had_error
    /\ trk.pending # {}

\* ------------------------------------------------------------------- C24
\* the tracker asks the manager about id in this step
TrackerAsks(id) ==
  /\ trk.phase = "reconcile"
  /\ id \in trk.todo
  /\ trk'.todo = trk.todo \ {id}

\* the tracker ends a reconciliation in this step
TrackerReconciles == trk.phase = "reconcile" /\ trk'.phase # "reconcile"

\* C24: on a Lagged signal the tracker asks the manager about every id
\* pending at that moment; an id the manager does not know when asked leaves
\* pending and sets had_error, an id it knows stays pending and sets no
\* flag.
C24_LagReconciles ==
  /\ [][(trk.phase = "recv" /\ trk'.phase = "reconcile") =>
          /\ trk'.rx.lag > 0
          /\ trk'.todo = trk.pending
          /\ trk'.gone = {}
          /\ trk'.pending = trk.pending]_vars
  /\ [][\A id \in trk.todo :
          TrackerAsks(id) =>
            /\ registry' = registry
            /\ id \in trk'.gone <=> id \notin DOMAIN registry
            /\ trk'.gone \ {id} = trk.gone
            /\ trk'.pending = trk.pending
            /\ trk'.had_error = trk.had_error]_vars
  /\ [][TrackerReconciles =>
          /\ trk.todo = {}
          /\ trk'.pending = trk.pending \ trk.gone
          /\ trk'.had_error = (trk.had_error \/ trk.gone # {})
          /\ trk'.had_unsupported = trk.had_unsupported]_vars

\* after a lag one pending id was found gone and another found present: the
\* first left pending and set had_error, the second is still pending
C24_Witness ==
  /\ trk.phase = "recv"
  /\ trk.rx.missed > 0
  /\ trk.gone # {}
  /\ trk.pending # {}
  /\ trk.pending \cap trk.gone = {}
  /\ trk.had_error
  /\ \A id \in trk.pending : id \in DOMAIN registry

\* ------------------------------------------------------------------- C25
\* play has been called for a tracked pipeline
PlayCalled == trk.phase # "off" /\ (trk.k > 1 \/ trk.phase # "play")

\* C25: the tracker's receiver exists before play is called on any tracked
\* pipeline and until the tracker is done; no eos, error, unsupported or
\* pipeline_removed event for a tracked id is sent before the receiver's
\* starting position; and every position the receiver has passed was either
\* handed to the tracker or counted in a Lagged signal.
C25_SubscribedBeforePlay ==
  /\ [](trk.phase \in {"play", "recv", "reconcile"} => trk.rx.on)
  /\ [](PlayCalled => trk.rx.start > 0)
  /\ [](\A i \in DOMAIN inst :
          (trk.phase # "off" /\ inst[i].state = "playing") => PlayCalled)
  /\ [](trk.phase # "off" =>
          \A x \in 1..Len(events) :
            (events[x].event \in TerminalEvents
               /\ events[x].pipeline_id \in Tracked) => trk.rx.start <= x)
  /\ [](trk.phase # "off" =>
          trk.rx.n + trk.rx.missed = trk.rx.pos - trk.rx.start)
  /\ [][(trk.phase # "off" /\ trk'.rx.pos # trk.rx.pos) =>
          \/ /\ trk'.rx.pos = trk.rx.pos + 1
             /\ trk'.rx.n = trk.rx.n + 1
             /\ trk'.rx.missed = trk.rx.missed
          \/ /\ trk'.rx.pos > trk.rx.pos
             /\ trk'.rx.n = trk.rx.n
             /\ trk'.rx.missed = trk.rx.missed + trk'.rx.pos - trk.rx.pos
             /\ trk'.phase = "reconcile"]_vars

\* a terminal event for a tracked id was handed to the tracker after a
\* Lagged signal had accounted for earlier events
C25_Witness ==
  /\ trk.rx.missed > 0
  /\ trk.rx.last > 0
  /\ events[trk.rx.last].event \in TerminalEvents
  /\ events[trk.rx.last].pipeline_id \in Tracked
  /\ trk.rx.start <= trk.rx.last

\* ------------------------------------------------------------------- C26
\* a terminal event has been sent, since the tracker subscribed, for every
\* tracked id that play_all started
AllTerminal ==
  /\ trk.phase \in {"recv", "reconcile"}
  /\ \A id \in Tracked \ trk.failed :
       \E x \in trk.rx.start..Len(events) :
         /\ events[x].event \in TerminalEvents
         /\ events[x].pipeline_id = id

\* every task has run as far as it can: the tracker waits in recv with
\* nothing to receive, no watcher has a message to handle and no client
\* call is in progress
Quiescent ==
  /\ ~ENABLED Tracker
  /\ \A i \in DOMAIN inst : ~ENABLED Watch(i)
  /\ \A p \in Procs : pc[p] = "idle"

\* C26: once a terminal event has been sent for every tracked pipeline, the
\* tracker empties pending and sends a completion code, also when some of
\* those events were dropped for its lagging receiver: when all tasks have
\* run as far as they can, the tracker is done.
C26_PlaybackCompletes == (AllTerminal /\ Quiescent) => trk.phase = "done"

\* ------------------------------------------------------------------- C27
\* the 16 patterns
ThePatterns == {media_patterns[k] : k \in 1..Len(media_patterns)}

\* some pattern occurs in m, each of its characters in either case
MatchesAnyCase(m) ==
  \E p \in ThePatterns :
    \E off \in 0..(Len(m) - Len(p)) :
      \A j \in 1..Len(p) : m[off + j] \in {p[j], Upper(p[j])}

\* C27: the classifier returns the message it was given, unchanged, when
\* the message contains one of the 16 patterns in any casing, and no
\* classification otherwise, as for "generic failure occurred".
C27_Classifier ==
  (calc.fn = "is_media_not_supported_error" /\ calc.done) =>
    /\ Cardinality(ThePatterns) = 16
    /\ MatchesAnyCase(calc.arg) =>
         calc.out = [some |-> TRUE, value |-> calc.arg]
    /\ ~MatchesAnyCase(calc.arg) =>
         calc.out = [some |-> FALSE, value |-> <<>>]
    /\ calc.arg = GenericFailure => ~calc.out.some

\* a message with upper-case letters was classified and came back as given
C27_Witness ==
  /\ calc.fn = "is_media_not_supported_error" /\ calc.done
  /\ calc.arg # to_lowercase(calc.arg)
  /\ calc.out.some
  /\ calc.out.value = calc.arg

\* ------------------------------------------------------------------- C28
\* Pipeline::new has returned
NewDone == calc.fn = "Pipeline::new" /\ calc.done

\* what the claim says of a constructed pipeline and of the longest
\* description
NewContract ==
  LET id == calc.arg[1]
      d == calc.arg[2]
      r == calc.out.res
  IN  /\ d.text \in {"", "   "} =>
           /\ ~calc.out.parsed
           /\ ~r.ok /\ r.err = "InvalidPipeline" /\ r.msg = "empty"
      /\ d.bytes = 65536 => r.msg # "too long"
      /\ r.ok =>
           /\ r.val.id = id
           /\ r.val.description = d
           /\ ~r.val.flag
           /\ ~r.val.bus_task /\ r.val.watcher = "none"
           /\ r.val.state = "null"

\* C28 as claimed: every description longer than 65536 bytes is rejected
\* before parsing with InvalidPipeline mentioning 'too long', every blank
\* one with InvalidPipeline mentioning 'empty'; one of exactly 65536 bytes
\* passes the length check; a constructed pipeline has the given id, the
\* description as given, a cleared flag, no watcher handle and state null.
C28_AsClaimed ==
  NewDone =>
    /\ NewContract
    /\ calc.arg[2].bytes > 65536 =>
         /\ ~calc.out.parsed
         /\ ~calc.out.res.ok
         /\ calc.out.res.err = "InvalidPipeline"
         /\ calc.out.res.msg = "too long"

\* C28, amended: as claimed, with 'too long' for every description longer
\* than 65536 bytes that is not blank; a blank one is rejected as 'empty'
\* whatever its length.
C28_ConstructionValidates ==
  NewDone =>
    /\ NewContract
    /\ (calc.arg[2].bytes > 65536 /\ calc.arg[2].text \notin {"", "   "}) =>
         /\ ~calc.out.parsed
         /\ ~calc.out.res.ok
         /\ calc.out.res.err = "InvalidPipeline"
         /\ calc.out.res.msg = "too long"

\* a description of exactly 65536 bytes was constructed, with blanks kept
C28_Witness ==
  /\ NewDone
  /\ calc.arg[2].bytes = 65536
  /\ calc.out.res.ok
  /\ calc.out.res.val.description = calc.arg[2]
  /\ calc.out.res.val.id = calc.arg[1]

\* the origin check as stated: no allow-list, no Origin header, or an
\* Origin equal to an allow-list entry
OriginPasses(cfg, origin) ==
  ~cfg.origins.some \/ ~origin.some \/ origin.value \in cfg.origins.value

\* the key check as stated: no key, or an Authorization header byte-equal
\* to the key
KeyPasses(cfg, auth) ==
  ~cfg.key.some \/ (auth.some /\ auth.value = cfg.key.value)

StatusClaimed(cfg, origin, auth) ==
  IF ~OriginPasses(cfg, origin) THEN FORBIDDEN
  ELSE IF KeyPasses(cfg, auth) THEN SWITCHING_PROTOCOLS
  ELSE IF auth.some THEN FORBIDDEN
  ELSE UNAUTHORIZED

\* C29: the upgrade is accepted iff the origin check and the key check both
\* pass (Origin absent or equal to an allow-list entry; Authorization present
\* and byte-equal to the key), a failed origin check or a non-matching key is
\* answered 403 and an absent Authorization header 401, and a connection
\* that fails a configured check is never registered as a client.
C29_UpgradeAccepted ==
  [][\A c \in Conns :
       /\ (ws.conn[c].phase = "handshake" /\ ws'.conn[c].phase # "handshake")
            => ws'.conn[c].status =
                 StatusClaimed(ws.cfg, ws.conn[c].origin, ws.conn[c].auth)
       /\ (c \in ws'.clients /\ c \notin ws.clients)
            => ws.conn[c].status = SWITCHING_PROTOCOLS]_vars

\* what a client has received on its socket apart from events
Responses(w) == SelectSeq(w, LAMBDA m : m.type # "event")

\* r answers frame f: code -32700 for a frame that is not a valid request,
\* the request's id otherwise; the result of a snapshot is sent without the
\* JSON-RPC envelope and so without an id (server.rs:277-282)
Answers(r, f) ==
  IF f.kind \in {"garbage", "no_method"}
  THEN r.type = "response" /\ r.code = PARSE_ERROR
  ELSE \/ r.type = "response" /\ r.id = f.id
       \/ f.kind = "snapshot" /\ r = SnapshotResponse

\* C30: every text frame a connected client sends yields exactly one response
\* delivered to that client, with code -32700 for a frame that is not a valid
\* request and with the request's id for a valid one, also when the client's
\* outbound channel is full of broadcast events: once the channel of an open
\* connection has been emptied onto the socket, the client has one response
\* for each frame it sent, in order (a snapshot result counts as the
\* response to its request).
C30_OneResponsePerFrame ==
  \A c \in Conns :
    (ws.on /\ ws.conn[c].phase = "open" /\ ws.chan[c] = <<>>)
      => /\ Len(Responses(ws.wire[c])) = Len(ws.asked[c])
         /\ \A k \in 1..Len(ws.asked[c]) :
              Answers(Responses(ws.wire[c])[k], ws.asked[c][k])

\* ------------------------------------------------------------------- C32
\* C32: in every reachable state the number of clients registered in the
\* WebSocket server's client map is at most MAX_CONCURRENT_CLIENTS, for all
\* interleavings of concurrently arriving connections.
C32_ClientLimit ==
  ws.on => Cardinality(ws.clients) <= MAX_CONCURRENT_CLIENTS

\* ------------------------------------------------------------------- C33
\* the events a client has been handed or has queued, oldest first
EventsOf(c) ==
  SelectSeq(ws.wire[c] \o ws.chan[c], LAMBDA m : m.type = "event")

CodeClaimed(req, res) ==
  CASE req.method = "bogus" -> METHOD_NOT_FOUND
    [] ~req.params_ok -> INVALID_PARAMS
    [] res.err = "PipelineNotFound" -> PIPELINE_NOT_FOUND
    [] res.err = "InvalidPipeline" /\ res.msg = "too long"
         -> DESCRIPTION_TOO_LONG
    [] res.err = "InvalidPipeline" -> PIPELINE_CREATION_FAILED
    [] res.err = "StateChangeFailed" -> STATE_CHANGE_FAILED
    [] res.err = "GStreamer" -> GSTREAMER_ERROR
    [] res.err = "MediaNotSupported" -> MEDIA_NOT_SUPPORTED
    [] OTHER -> INTERNAL_ERROR

\* C31: each core error kind maps to its own JSON-RPC error code in the
\* response (PipelineNotFound -32000, creation failure -32001,
\* StateChangeFailed -32002, framework error -32003, a description rejected
\* as too long -32004, MediaNotSupported -32005, unknown method -32601, bad
\* params -32602), and every response carries exactly one of result and
\* error.
C31_ErrorCodes ==
  (calc.fn = "handle" /\ calc.done) =>
    /\ calc.out.result.some # calc.out.error.some
    /\ calc.out.id = calc.arg.id
    /\ calc.out.error.some =>
         calc.out.error.value.code =
           CodeClaimed(calc.arg, ManagerResult(calc.arg))

\* ------------------------------------------------------------------- C34
\* the event said to be published for bus message m of pipeline id, or
\* nothing
Published(id, m) ==
  CASE m.kind = "error" ->
         <<[event |-> IF MatchesAnyCase(m.text)
                      THEN "unsupported" ELSE "error",
            pipeline_id |-> id]>>
    [] m.kind = "eos" -> <<[event |-> "eos", pipeline_id |-> id]>>
    [] m.kind = "state_changed" /\ m.src = "pipeline" ->
         <<[event |-> "state_changed", pipeline_id |-> id]>>
    [] OTHER -> <<>>

\* C34: the bus watcher publishes at most one event per bus message, with
\* its own pipeline id and chosen by the message kind: an error yields
\* unsupported if the classifier matches it and error otherwise,
\* end-of-stream yields eos, a state change of the pipeline itself yields
\* state_changed with the message's old and new state, and a state change
\* of a descendant element, a warning and every other kind yield nothing.
C34_WatcherDispatch ==
  [][\A i \in DOMAIN inst :
       (inst[i].wmsg # NoMsg /\ inst'[i].wmsg = NoMsg) =>
         LET new == SubSeq(events', Len(events) + 1, Len(events'))
             m == inst[i].wmsg
         IN  /\ SubSeq(events', 1, Len(events)) = events
             /\ [k \in 1..Len(new) |->
                   [event |-> new[k].event,
                    pipeline_id |-> new[k].pipeline_id]]
                  = Published(inst[i].id, m)
             /\ \A k \in 1..Len(new) :
                  new[k].event = "state_changed" =>
                    /\ new[k].old_state = m.old
                    /\ new[k].new_state = m.new]_vars

\* a watcher has published unsupported for an error that classifies, and is
\* back in its loop
C34_Witness ==
  \E i \in DOMAIN inst :
    /\ inst[i].watcher = "running"
    /\ inst[i].wmsg = NoMsg
    /\ \E k \in 1..Len(events) :
         /\ events[k].event = "unsupported"
         /\ events[k].pipeline_id = inst[i].id
         /\ events[k].message = ErrorMsg(NoSuitableDecoder)

\* ------------------------------------------------------------------- C35
\* the ids in the result of a list_pipelines call that has returned
Listed(p) == [k \in 1..Len(frame[p].res.val) |-> frame[p].res.val[k].id]

\* C35: list_pipelines holds the registry read lock only while it copies
\* the pipeline handles, never while it waits for or holds a pipeline mutex;
\* its result has each id at most once and only ids that were in the
\* registry at the snapshot.
C35_ListSnapshot ==
  \A p \in Procs :
    /\ pc[p] \in {"list_lock", "list_read"} => p \notin rw.readers
    /\ (frame[p].op = "list_pipelines" /\ \E i \in DOMAIN inst : inst[i].lock = p)
         => p \notin rw.readers
    /\ Done(p, "list_pipelines") =>
         /\ \A j, k \in 1..Len(Listed(p)) : j # k => Listed(p)[j] # Listed(p)[k]
         /\ {Listed(p)[k] : k \in 1..Len(Listed(p))}
              \subseteq DOMAIN frame[p].reg0

\* a listing has returned a pipeline that another call removed from the
\* registry, under the write lock, after the snapshot
C35_Witness ==
  \E p \in Procs :
    /\ Done(p, "list_pipelines")
    /\ \E k \in 1..Len(Listed(p)) : Listed(p)[k] \notin DOMAIN registry

\* ------------------------------------------------------------------- C36
\* a call of p is in progress
InCall(p) == pc[p] \notin {"idle", "done"}

\* some task can take a step
SomeTaskRuns ==
  \/ \E q \in Procs : ENABLED Progress(q)
  \/ \E i \in DOMAIN inst : ENABLED Watch(i)

\* C36: the lifecycle engine is deadlock-free: no task takes the registry
\* lock while it holds a pipeline mutex, a watcher takes only its own
\* pipeline's mutex and no registry lock, and there is no reachable state in
\* which a call is in progress and no task can move, so every started
\* operation returns.
C36_DeadlockFree ==
  /\ [](/\ \A p \in Procs : InCall(p) => SomeTaskRuns
        /\ rw.writer \in Procs \cup {""} /\ rw.readers \subseteq Procs
        /\ \A i \in DOMAIN inst :
             inst[i].lock = "watcher" => inst[i].watcher = "locked")
  /\ [][\A p \in Procs :
          ((rw'.writer = p /\ rw.writer # p)
             \/ (p \in rw'.readers /\ p \notin rw.readers))
          => \A i \in DOMAIN inst : inst[i].lock # p]_vars

\* a call waits for a pipeline mutex that another task holds, and goes on
\* once that task lets go
C36_Witness ==
  \E p \in Procs :
    /\ InCall(p) /\ ~ENABLED Progress(p)
    /\ \E i \in DOMAIN inst : inst[i].lock \notin {"", p}

\* the pipeline has left the registry through remove_pipeline or
\* update_pipeline and that call's stop has brought its graph to null
StoppedAndOut(i) ==
  /\ Left(i) /\ inst[i].state = "null"
  /\ \A x \in DOMAIN registry : registry[x] # i
  /\ \A p \in Procs : frame[p].old = i => pc[p] \in {"rem_publish", "done"}

\* C37: a pipeline that remove_pipeline or update_pipeline has stopped and
\* taken out of the registry stays stopped: no step, a set_state through a
\* handle resolved before the removal included, brings its graph to a state
\* other than null.
C37_RemovedStaysStopped ==
  [][\A i \in DOMAIN inst :
       StoppedAndOut(i) => inst'[i].state = "null"]_vars

\* the positions in the send order of the pipeline_added and
\* pipeline_updated events for id
Describing(id) ==
  {k \in EventsFor(id) :
     events[k].event \in {"pipeline_added", "pipeline_updated"}}

\* C38: the manager's events for one id are published in the order in which
\* the registry changes were committed: once every call has returned, the
\* last pipeline_added or pipeline_updated event for a registered id carries
\* the description the registry holds for it, and no pipeline_removed is
\* published before the id's pipeline_added.
C38_EventsInCommitOrder ==
  /\ (\A p \in Procs : pc[p] \in {"idle", "done"}) =>
       \A id \in DOMAIN registry :
         Describing(id) # {} =>
           \E k \in Describing(id) :
             /\ \A j \in Describing(id) : j <= k
             /\ events[k].description = inst[registry[id]].description.text
  /\ \A k \in 1..Len(events) :
       events[k].event = "pipeline_removed" =>
         \E j \in 1..(k - 1) :
           /\ events[j].event = "pipeline_added"
           /\ events[j].pipeline_id = events[k].pipeline_id

\* no update_pipeline call on the instance's id is still in progress
UpdateReturned(i) ==
  \A p \in Procs :
    (frame[p].op = "update_pipeline" /\ frame[p].id = inst[i].id)
      => pc[p] \in {"idle", "done"}

\* C39: at most one live watcher publishes under a pipeline id: once
\* update_pipeline has returned, the watcher of the instance it replaced
\* publishes no further event under the id.
C39_ReplacedWatcherSilent ==
  [][\A i \in DOMAIN inst :
       (inst[i].left = "replaced" /\ UpdateReturned(i))
         => inst'[i].nsent = inst[i].nsent]_vars

\* C40: the session-bus object model mirrors the registry: when every call
\* has returned and the forwarder has processed every published event, the
\* ids in pipeline_indices, each with its object registered, are the ids in
\* the registry; distinct ids have distinct indices; and an index is handed
\* out once only, every newly stored index being the next_index of the
\* moment, which then grows.
C40_DbusMirrorsRegistry ==
  /\ [](/\ (/\ dbus.on
            /\ subs["dbus"].pos > Len(events)
            /\ \A p \in Procs : pc[p] \in {"idle", "done"})
           => /\ DOMAIN dbus.pipeline_indices = DOMAIN registry
              /\ \A x \in DOMAIN dbus.pipeline_indices :
                   dbus.pipeline_indices[x] \in dbus.objects
        /\ \A x, y \in DOMAIN dbus.pipeline_indices :
             x # y => dbus.pipeline_indices[x] # dbus.pipeline_indices[y])
  /\ [][\A x \in DOMAIN dbus'.pipeline_indices :
          (x \notin DOMAIN dbus.pipeline_indices
             \/ dbus'.pipeline_indices[x] # dbus.pipeline_indices[x])
          => /\ dbus'.pipeline_indices[x] = dbus.next_index
             /\ dbus'.next_index > dbus.next_index]_vars
====
